---------------------------- MODULE Spec2Model ----------------------------
(***************************************************************************)
(* Bulk Image Cleaner: the OAuth relay / session endpoints of the backend  *)
(* (backend/dist/server.js, backend/dist/webflow.js) and the reference     *)
(* sweep and delete pipeline of the Designer extension (frontend App.tsx). *)
(*                                                                         *)
(* JavaScript strings that the code trims, tests with a regular expression *)
(* or compares by prefix are sequences of one-character strings; Undef is  *)
(* the value undefined.                                                    *)
(*                                                                         *)
(* Backend: one session of the default in-memory session store (no         *)
(* REDIS_URL, server.js:89-97), whose get and destroy do not fail and      *)
(* whose save fails only where a handler tests for it (GET /auth).         *)
(* Requests of one session are handled one after the other, so each route  *)
(* handler is one action. SpecBackend follows the session endpoints,       *)
(* SpecAuth the GET /auth requests with one callback, and SpecScopes the   *)
(* authorize URL under each value of WEBFLOW_SCOPES.                       *)
(*                                                                         *)
(* Extension: runScan is followed host call by host call (SpecSweep), each *)
(* call answering one of a few values or throwing; refDoc, refRead and     *)
(* switched record what the document held and what the sweep could read.   *)
(* The screens and performDelete are followed with each sweep taken as one *)
(* step (SpecUi). SpecScans follows runScan calls started while an earlier *)
(* one is in progress, with the progress timer's ticks; SpecDeletes        *)
(* follows performDelete calls confirmed while an earlier one is running.  *)
(* SpecUiLive is SpecUi with the awaited calls of performDelete settling.  *)
(* SpecGate follows the refreshAuth calls and the screens the gate lets    *)
(* through, SpecBatches the fetches of the style pass one by one, and      *)
(* SpecProgress the scan progress under runScan, the timer and reset.      *)
(***************************************************************************)
EXTENDS Integers, Sequences, FiniteSets, TLC

VARIABLES
    session,      \* req.session: accessToken, scopes, authorizedSites
    resp,         \* the response of the request being answered (NoResp: none)
    clock,        \* Date.now()
    nCallbacks,   \* /auth/callback requests handled so far
    loggedOut,    \* history: "no", or what the session destroyed by the last
                  \* POST /api/logout held ("anonymous", "authorized"), until a
                  \* later callback exchanges a token
    resolved      \* history: the non-blank site ids the last successful callback of
                  \* this session resolved (-1: none yet)

VARIABLE
    scopesEnv     \* process.env.WEBFLOW_SCOPES of the deployment (Undef: not set)

backendVars == <<session, resp, clock, nCallbacks, loggedOut, resolved, scopesEnv>>

VARIABLES
    sweep,        \* the locals of the runScan call in progress (pc: where it is)
    scanResult,   \* React state scanResult (NoResult: null)
    screen,       \* React state screen
    error,        \* React state error (a message's kind, or NoError)
    selectedIds,  \* React state selectedIds
    selectAlls,   \* history: the toggleSelectAllUnused calls in a row since the
                  \* selection was last empty or set otherwise (0, 1 or 2)
    scanTick,     \* scanTickRef.current is an interval timer
    refDoc,       \* history: ids of the assets the document's fields reference,
                  \* whether or not the sweep could read the field
    refRead,      \* history: ids of the assets matched by a field the sweep read
    switched      \* history: pages the host switched to

VARIABLES
    deleting,     \* React state deleting
    confirmState, \* React state confirmState: open, and what the performDelete
                  \* closure it holds captured (selectedIds, scanResult)
    deleteProgress, \* React state deleteProgress
    del,          \* the locals of the performDelete call in progress
    delReport     \* history: what the last performDelete call followed round by
                  \* round counted, until the result is replaced or dropped

sweepVars == <<sweep, refDoc, refRead, switched>>

deleteVars == <<deleting, deleteProgress, confirmState, del, delReport>>

uiVars == <<scanResult, screen, error, selectedIds, selectAlls, scanTick, deleteVars>>

VARIABLES
    scanProgress, \* React state scanProgress
    olderSweeps,  \* the runScan calls that a later runScan call followed while
                  \* they were in progress: how many are running, how many ended
    deleteRuns    \* the performDelete calls that are followed to their end in
                  \* one step, each with what its closure captured until it ends

overlapVars == <<olderSweeps, deleteRuns>>

VARIABLES
    authGate,     \* React state authGate; read (history): what the refreshAuth
                  \* call that set it read
    refreshing    \* the refreshAuth calls in progress

gateVars == <<authGate, refreshing>>

VARIABLE
    styleLoop     \* the BATCH loop of runScan's style pass, fetch by fetch: the
                  \* loop variable i, styles.length, and (history) how often
                  \* getProperties() was called on each style and how many
                  \* fetches of each batch have not settled

VARIABLE
    progressRun   \* runScan, reset and the interval timer as far as they touch
                  \* scanProgress: the progress, whether the timer runs and the
                  \* scanning screen is shown, where the call is, the numbers of
                  \* pages and styles, and (history) the last page percentage

batchVars == <<styleLoop, progressRun>>

frontendVars ==
    <<sweepVars, uiVars, scanProgress, overlapVars, gateVars, batchVars>>

vars == <<backendVars, frontendVars>>

-----------------------------------------------------------------------------
(* Bounds of the model *)

MaxCallbacks == 2
MaxClock == 1

-----------------------------------------------------------------------------
(* JavaScript values *)

Undef == <<"undefined">>

IsWhitespace(c) == c \in {" ", "\t", "\n"}

RECURSIVE TrimStart(_)
TrimStart(s) ==
    IF s = <<>> THEN <<>>
    ELSE IF IsWhitespace(Head(s)) THEN TrimStart(Tail(s)) ELSE s

RECURSIVE TrimEnd(_)
TrimEnd(s) ==
    IF s = <<>> THEN <<>>
    ELSE IF IsWhitespace(s[Len(s)]) THEN TrimEnd(SubSeq(s, 1, Len(s) - 1)) ELSE s

\* String.prototype.trim
Trim(s) == TrimEnd(TrimStart(s))

\* x is truthy (of a string or undefined)
Truthy(x) == x # Undef /\ x # <<>>

\* String(x || "")
StringOr(x) == IF Truthy(x) THEN x ELSE <<>>

\* s.startsWith(p)
StartsWith(s, p) == Len(s) >= Len(p) /\ SubSeq(s, 1, Len(p)) = p

\* a ?? b
Nullish(a, b) == IF a # Undef THEN a ELSE b

-----------------------------------------------------------------------------
(* Vocabulary of the requests and of the upstream answers *)

S1 == <<"s", "1">>
S2 == <<"s", "2">>
S1Padded == <<" ", "s", "1">>
Blank == <<" ">>
ProtoKey == <<"c", "o", "n", "s", "t", "r", "u", "c", "t", "o", "r">>

T1 == <<"t", "1">>
T2 == <<"t", "2">>

NameA == <<"A">>
NameB == <<"B">>

\* req.params.siteId of a DELETE request (a route parameter is never empty)
SiteParams == {S1, S2, S1Padded, Blank, ProtoKey}
\* req.params.assetId
AssetParams == {<<"a">>, Blank}

\* what the token endpoint's 2xx body yields as {accessToken, scope}
TokenResults ==
    { [accessToken |-> T1, scope |-> <<"r">>],
      [accessToken |-> T2, scope |-> <<"w">>],
      [accessToken |-> <<>>, scope |-> Undef],
      [accessToken |-> Undef, scope |-> Undef] }

\* An upstream call's outcome: it threw, or it returned value
Threw == [threw |-> TRUE, value |-> <<>>]
Returned(v) == [threw |-> FALSE, value |-> v]

\* data.authorization.authorizedTo.siteIds of /token/introspect
IntrospectResults ==
    {Threw} \cup {Returned(v) : v \in {<<>>, <<S1>>, <<S2>>, <<S1, S2>>, <<Blank>>}}

Site(id, name) == [id |-> id, displayName |-> name]

\* data.sites of /sites
SiteListResults ==
    {Threw} \cup
    {Returned(v) : v \in
        { <<>>,
          <<Site(S1, NameA)>>,
          <<Site(S2, NameB), Site(S1, <<>>)>>,
          <<Site(S1, NameA), Site(S2, NameA)>>,
          <<Site(S2, <<>>)>> }}

-----------------------------------------------------------------------------
(* Session and responses *)

NoSites == [k \in {} |-> Undef]

\* A new session: no token, no authorizedSites property. siteOrder is the
\* insertion order of authorizedSites' own keys (what Object.keys returns).
EmptySession ==
    [accessToken |-> Undef, scopes |-> Undef,
     sitesDefined |-> FALSE, authorizedSites |-> NoSites, siteOrder |-> <<>>,
     postAuthRedirect |-> Undef]

NoResp ==
    [route |-> "none", status |-> 0, authenticated |-> FALSE,
     siteIds |-> {}, sites |-> <<>>, siteId |-> Undef, assetId |-> Undef,
     token |-> Undef, extCall |-> FALSE,
     location |-> Undef, scope |-> Undef, workspace |-> Undef,
     body |-> [message |-> Undef, code |-> Undef, details |-> Undef],
     \* history: the token endpoint's non-2xx answer, whether the callback
     \* exchanged a token, and what its upserts found
     upstream |-> [status |-> 0, data |-> [message |-> Undef, code |-> Undef,
                                            details |-> Undef]],
     exchanged |-> FALSE,
     upserted |-> [ids |-> {}, before |-> NoSites, now |-> -1, fallback |-> {}]]

\* No request of the session is being answered
Idle == resp.route = "none"

\* Own keys of Object.prototype that a plain object inherits
ObjectPrototypeKeys == {ProtoKey}

\* map[key] is truthy: an own entry, or a property inherited from Object.prototype
HasTruthyProperty(map, key) == key \in DOMAIN map \/ key \in ObjectPrototypeKeys

\* (map[key])?.accessToken
EntryAccessToken(map, key) ==
    IF key \in DOMAIN map THEN map[key].accessToken ELSE Undef

\* The members of the webflowApi object
webflowApi == {"token", "sites"}

-----------------------------------------------------------------------------
(* Auth helpers *)

\* The site entries that carry a token: String(entry.accessToken || "").trim()
TokenSites(s) ==
    {id \in DOMAIN s.authorizedSites :
        Trim(StringOr(s.authorizedSites[id].accessToken)) # <<>>}

\* hasAnyAuthorization, compiled server
hasAnyAuthorization(s) ==
    /\ s.sitesDefined
    /\ DOMAIN s.authorizedSites # {}
    /\ TokenSites(s) # {}

\* hasAnyAuthorization, TypeScript source
hasAnyAuthorizationTs(s) ==
    \/ Truthy(s.accessToken)
    \/ (s.sitesDefined /\ DOMAIN s.authorizedSites # {})

\* ensureAuthorizedSites: the session afterwards
ensureAuthorizedSites(s) ==
    IF s.sitesDefined THEN s ELSE [s EXCEPT !.sitesDefined = TRUE]

\* getAccessTokenForSite
getAccessTokenForSite(s, siteId) ==
    LET entryToken == EntryAccessToken(s.authorizedSites, Trim(StringOr(siteId)))
    IN  Trim(StringOr(IF Truthy(entryToken) THEN entryToken ELSE s.accessToken))

\* An upsert that stamps firstSeenAt anew
upsertAuthorizedSite_NewFirstSeen(s, siteId, patch, now) ==
    LET id == Trim(StringOr(siteId))
        map == s.authorizedSites
        has == id \in DOMAIN map
        entry ==
            [siteId |-> id,
             siteName |-> Nullish(patch.siteName, IF has THEN map[id].siteName ELSE Undef),
             accessToken |->
                 Nullish(patch.accessToken, IF has THEN map[id].accessToken ELSE Undef),
             scopes |-> Nullish(patch.scopes, IF has THEN map[id].scopes ELSE Undef),
             firstSeenAt |-> now,
             lastSeenAt |-> IF patch.lastSeenAt >= 0 THEN patch.lastSeenAt ELSE now]
    IN  IF id = <<>> THEN s
        ELSE [s EXCEPT
                !.sitesDefined = TRUE,
                !.authorizedSites =
                    [k \in DOMAIN map \cup {id} |-> IF k = id THEN entry ELSE map[k]],
                !.siteOrder = IF has THEN @ ELSE Append(@, id)]

\* upsertAuthorizedSite(req, siteId, patch) with Date.now() = now: the session afterwards
upsertAuthorizedSite(s, siteId, patch, now) ==
    LET id == Trim(StringOr(siteId))
        map == s.authorizedSites
        has == id \in DOMAIN map
        entry ==
            [siteId |-> id,
             siteName |-> Nullish(patch.siteName, IF has THEN map[id].siteName ELSE Undef),
             accessToken |->
                 Nullish(patch.accessToken, IF has THEN map[id].accessToken ELSE Undef),
             scopes |-> Nullish(patch.scopes, IF has THEN map[id].scopes ELSE Undef),
             firstSeenAt |-> IF has THEN map[id].firstSeenAt ELSE now,
             \* patch.lastSeenAt ?? now; a patch without lastSeenAt carries -1
             lastSeenAt |-> IF patch.lastSeenAt >= 0 THEN patch.lastSeenAt ELSE now]
    IN  IF id = <<>> THEN s
        ELSE [s EXCEPT
                !.sitesDefined = TRUE,
                !.authorizedSites =
                    [k \in DOMAIN map \cup {id} |-> IF k = id THEN entry ELSE map[k]],
                !.siteOrder = IF has THEN @ ELSE Append(@, id)]

-----------------------------------------------------------------------------
(* The scopes of the authorize URL *)

\* A character of a run that /[\s,]+/ matches
IsScopeSeparator(c) == IsWhitespace(c) \/ c = ","

\* raw.split(/[\s,]+/), cur being the piece read so far and prevSep whether the
\* character before was a separator
RECURSIVE SplitOn(_, _, _)
SplitOn(raw, cur, prevSep) ==
    IF raw = <<>> THEN <<cur>>
    ELSE IF IsScopeSeparator(Head(raw))
         THEN IF prevSep THEN SplitOn(Tail(raw), cur, TRUE)
              ELSE <<cur>> \o SplitOn(Tail(raw), <<>>, TRUE)
    ELSE SplitOn(Tail(raw), Append(cur, Head(raw)), FALSE)

\* raw.split(/[\s,]+/).map((s) => s.trim()).filter(Boolean)
ScopeList(raw) ==
    LET pieces == SplitOn(raw, <<>>, FALSE)
    IN  SelectSeq([k \in 1..Len(pieces) |-> Trim(pieces[k])], LAMBDA s : s # <<>>)

\* list.join(" ")
RECURSIVE JoinSpace(_)
JoinSpace(list) ==
    IF list = <<>> THEN <<>>
    ELSE IF Len(list) = 1 THEN list[1]
    ELSE list[1] \o <<" ">> \o JoinSpace(Tail(list))

\* normalizeScopes
normalizeScopes(raw) == JoinSpace(ScopeList(raw))

\* mergeScopes
mergeScopes(required, provided) ==
    LET req == ScopeList(required)
        prov == ScopeList(StringOr(provided))
        reqSet == {req[k] : k \in 1..Len(req)}
    IN  JoinSpace(req \o SelectSeq(prov, LAMBDA s : s \notin reqSet))

REQUIRED_SCOPES ==
    <<"s", "i", "t", "e", "s", ":", "r", "e", "a", "d", ",", "a", "u", "t",
      "h", "o", "r", "i", "z", "e", "d", "_", "u", "s", "e", "r", ":", "r",
      "e", "a", "d", ",", "a", "s", "s", "e", "t", "s", ":", "r", "e", "a",
      "d", ",", "a", "s", "s", "e", "t", "s", ":", "w", "r", "i", "t", "e">>

\* The scope parameter of authorizeUrl(opts), WEBFLOW_SCOPES being provided
AuthorizeScope(provided) == normalizeScopes(mergeScopes(REQUIRED_SCOPES, provided))

\* Values of WEBFLOW_SCOPES: unset, empty, a required scope and a new one, one
\* new scope twice, and two new scopes among blanks and commas
ScopesOverlap ==
    <<"a", "s", "s", "e", "t", "s", ":", "r", "e", "a", "d", ",", "c", "m",
      "s", ":", "r", "e", "a", "d">>
ScopesTwice ==
    <<"c", "m", "s", ":", "r", "e", "a", "d", " ", "c", "m", "s", ":", "r",
      "e", "a", "d">>
ScopesPadded ==
    <<" ", "c", "m", "s", ":", "r", "e", "a", "d", " ", ",", ",", " ", "s",
      "i", "t", "e", "s", ":", "w", "r", "i", "t", "e", " ">>
ProvidedScopes == {Undef, <<>>, ScopesOverlap, ScopesTwice, ScopesPadded}

-----------------------------------------------------------------------------
(* URLs: new URL(u).toString() and the redirect sanitization *)

UpperCase ==
    <<"A", "B", "C", "D", "E", "F", "G", "H", "I", "J", "K", "L", "M", "N",
      "O", "P", "Q", "R", "S", "T", "U", "V", "W", "X", "Y", "Z">>
LowerCase ==
    <<"a", "b", "c", "d", "e", "f", "g", "h", "i", "j", "k", "l", "m", "n",
      "o", "p", "q", "r", "s", "t", "u", "v", "w", "x", "y", "z">>
Letters == {LowerCase[k] : k \in 1..Len(LowerCase)}
Digits == {"0", "1", "2", "3", "4", "5", "6", "7", "8", "9"}

\* The lower-case letter of each capital
LowerOfUpper ==
    [c \in {UpperCase[k] : k \in 1..Len(UpperCase)} |->
        LowerCase[CHOOSE k \in 1..Len(UpperCase) : UpperCase[k] = c]]

ToLower(c) == IF c \in DOMAIN LowerOfUpper THEN LowerOfUpper[c] ELSE c

\* String.prototype.toLowerCase, and what the i flag of a pattern amounts to
LowerOf(s) == [k \in 1..Len(s) |-> ToLower(s[k])]

\* The first and the last position of s that holds a character of chars (0: none)
IndexOf(s, chars) ==
    IF \E k \in 1..Len(s) : s[k] \in chars
    THEN CHOOSE k \in 1..Len(s) : s[k] \in chars /\ \A j \in 1..(k - 1) : s[j] \notin chars
    ELSE 0

LastIndexOf(s, chars) ==
    IF \E k \in 1..Len(s) : s[k] \in chars
    THEN CHOOSE k \in 1..Len(s) : s[k] \in chars /\ \A j \in (k + 1)..Len(s) : s[j] \notin chars
    ELSE 0

\* s from position i on
From(s, i) == SubSeq(s, i, Len(s))

\* s without the slashes and backslashes it starts with
RECURSIVE SkipSlashes(_)
SkipSlashes(s) ==
    IF s # <<>> /\ Head(s) \in {"/", "\\"} THEN SkipSlashes(Tail(s)) ELSE s

HttpScheme == <<"h", "t", "t", "p">>
HttpsScheme == <<"h", "t", "t", "p", "s">>

\* The port a scheme implies, which the serialization leaves out
DefaultPort(scheme) == IF scheme = HttpsScheme THEN <<"4", "4", "3">> ELSE <<"8", "0">>

NoUrl ==
    [ok |-> FALSE, scheme |-> <<>>, userinfo |-> <<>>, host |-> <<>>, port |-> <<>>,
     path |-> <<>>]

\* new URL(u) without a base: the parts of the URL record, ok being FALSE where
\* the constructor throws. Percent-encoding and dot segments of the path, and
\* the host's code points, are left as given.
ParseUrl(u) ==
    LET colon == IndexOf(u, {":"})
        scheme == LowerOf(SubSeq(u, 1, colon - 1))
        rest == From(u, colon + 1)
        after == SkipSlashes(rest)
        stop == IndexOf(after, {"/", "\\", "?", "#"})
        authority == IF stop = 0 THEN after ELSE SubSeq(after, 1, stop - 1)
        tail == IF stop = 0 THEN <<>> ELSE From(after, stop)
        at == LastIndexOf(authority, {"@"})
        hostport == From(authority, at + 1)
        portAt == LastIndexOf(hostport, {":"})
        host == LowerOf(IF portAt = 0 THEN hostport ELSE SubSeq(hostport, 1, portAt - 1))
        port == IF portAt = 0 THEN <<>> ELSE From(hostport, portAt + 1)
    IN  IF colon <= 1 \/ scheme[1] \notin Letters
           \/ \E k \in 1..Len(scheme) : scheme[k] \notin Letters \cup Digits \cup {"+", "-", "."}
        THEN NoUrl
        ELSE IF scheme \notin {HttpScheme, HttpsScheme}
        THEN [NoUrl EXCEPT !.ok = TRUE, !.scheme = scheme, !.path = rest]
        ELSE IF host = <<>> \/ \E k \in 1..Len(port) : port[k] \notin Digits
        THEN NoUrl
        ELSE [ok |-> TRUE, scheme |-> scheme,
              userinfo |-> SubSeq(authority, 1, at - 1),
              host |-> host,
              port |-> IF port = DefaultPort(scheme) THEN <<>> ELSE port,
              \* a path starts with a slash; a query or a fragment follows it
              path |-> IF tail = <<>> THEN <<"/">>
                       ELSE IF Head(tail) \in {"?", "#"} THEN <<"/">> \o tail
                       ELSE [k \in 1..Len(tail) |-> IF tail[k] = "\\" THEN "/" ELSE tail[k]]]

\* url.toString()
UrlToString(url) ==
    IF url.scheme \notin {HttpScheme, HttpsScheme}
    THEN url.scheme \o <<":">> \o url.path
    ELSE url.scheme \o <<":", "/", "/">>
         \o (IF url.userinfo = <<>> THEN <<>> ELSE url.userinfo \o <<"@">>)
         \o url.host
         \o (IF url.port = <<>> THEN <<>> ELSE <<":">> \o url.port)
         \o url.path

\* The length of the longest run of characters of chars that s starts with
RECURSIVE RunLength(_, _)
RunLength(s, chars) ==
    IF s # <<>> /\ Head(s) \in chars THEN 1 + RunLength(Tail(s), chars) ELSE 0

WebflowCom ==
    <<"w", "e", "b", "f", "l", "o", "w", ".", "c", "o", "m">>
WebflowExtCom ==
    <<"w", "e", "b", "f", "l", "o", "w", "-", "e", "x", "t", ".", "c", "o",
      "m">>
Localhost ==
    <<"l", "o", "c", "a", "l", "h", "o", "s", "t">>
Loopback ==
    <<"1", "2", "7", ".", "0", ".", "0", ".", "1">>

\* /^https:\/\/(?:[a-z0-9-]+\.)?webflow\.com\//i
isWebflowDashboardUrl(u) ==
    LET s == LowerOf(u)
        rest == From(s, 9)
        label == RunLength(rest, Letters \cup Digits \cup {"-"})
    IN  /\ StartsWith(s, HttpsScheme \o <<":", "/", "/">>)
        /\ \/ StartsWith(rest, WebflowCom \o <<"/">>)
           \/ label > 0 /\ StartsWith(From(rest, label + 1), <<".">> \o WebflowCom \o <<"/">>)

\* /^https:\/\/[a-z0-9]+\.webflow-ext\.com\//i
isWebflowExtensionUrl(u) ==
    LET s == LowerOf(u)
        rest == From(s, 9)
        label == RunLength(rest, Letters \cup Digits)
    IN  /\ StartsWith(s, HttpsScheme \o <<":", "/", "/">>)
        /\ label > 0
        /\ StartsWith(From(rest, label + 1), <<".">> \o WebflowExtCom \o <<"/">>)

\* /^http:\/\/(?:localhost|127\.0\.0\.1)(?::\d+)?\//i
isLocalhostUrl(u) ==
    LET s == LowerOf(u)
        rest == From(s, 8)
        afterHost == IF StartsWith(rest, Localhost) THEN From(rest, Len(Localhost) + 1)
                     ELSE From(rest, Len(Loopback) + 1)
        digits == RunLength(Tail(afterHost), Digits)
    IN  /\ StartsWith(s, HttpScheme \o <<":", "/", "/">>)
        /\ StartsWith(rest, Localhost) \/ StartsWith(rest, Loopback)
        /\ \/ StartsWith(afterHost, <<"/">>)
           \/ /\ StartsWith(afterHost, <<":">>)
              /\ digits > 0
              /\ StartsWith(From(afterHost, digits + 2), <<"/">>)

\* A sanitizeRedirect that takes every URL the constructor takes
sanitizeRedirect_AnyUrl(u) ==
    IF ~Truthy(u) THEN Undef
    ELSE IF ~ParseUrl(u).ok THEN Undef
    ELSE UrlToString(ParseUrl(u))

\* sanitizeRedirect
sanitizeRedirect(u) ==
    IF ~Truthy(u) THEN Undef
    ELSE IF ~ParseUrl(u).ok THEN Undef
    ELSE LET s == UrlToString(ParseUrl(u))
         IN  IF isWebflowDashboardUrl(s) \/ isWebflowExtensionUrl(s) \/ isLocalhostUrl(s)
             THEN s ELSE Undef

\* a || b, of strings or undefined
Or(a, b) == IF Truthy(a) THEN a ELSE b

DefaultRedirect ==
    <<"h", "t", "t", "p", "s", ":", "/", "/", "w", "e", "b", "f", "l", "o",
      "w", ".", "c", "o", "m", "/", "d", "a", "s", "h", "b", "o", "a", "r",
      "d">>

-----------------------------------------------------------------------------
(* GET /auth *)

\* The URLs a request carries as redirectTo and as Referer: none, the three
\* trusted shapes (one in capitals without a path), and URLs of other hosts,
\* of another scheme, with the trusted host as user name, and without a scheme
UrlDashboardCaps ==
    <<"H", "T", "T", "P", "S", ":", "/", "/", "S", "u", "b", ".", "W", "e",
      "b", "f", "l", "o", "w", ".", "c", "o", "m">>
UrlExtension ==
    <<"h", "t", "t", "p", "s", ":", "/", "/", "a", "b", "1", "2", ".", "w",
      "e", "b", "f", "l", "o", "w", "-", "e", "x", "t", ".", "c", "o", "m",
      "/", "x">>
UrlLocalhost ==
    <<"h", "t", "t", "p", ":", "/", "/", "l", "o", "c", "a", "l", "h", "o",
      "s", "t", ":", "1", "3", "3", "7", "/">>
UrlLoopback ==
    <<"h", "t", "t", "p", ":", "/", "/", "1", "2", "7", ".", "0", ".", "0",
      ".", "1", ":", "8", "0">>
UrlEvil ==
    <<"h", "t", "t", "p", "s", ":", "/", "/", "e", "v", "i", "l", ".", "c",
      "o", "m", "/">>
UrlEvilSuffix ==
    <<"h", "t", "t", "p", "s", ":", "/", "/", "w", "e", "b", "f", "l", "o",
      "w", ".", "c", "o", "m", ".", "e", "v", "i", "l", ".", "c", "o", "m",
      "/">>
UrlEvilUser ==
    <<"h", "t", "t", "p", "s", ":", "/", "/", "w", "e", "b", "f", "l", "o",
      "w", ".", "c", "o", "m", "@", "e", "v", "i", "l", ".", "c", "o", "m",
      "/">>
UrlEvilTwoLabels ==
    <<"h", "t", "t", "p", "s", ":", "/", "/", "a", ".", "b", ".", "w", "e",
      "b", "f", "l", "o", "w", ".", "c", "o", "m", "/">>
UrlEvilBackslash ==
    <<"h", "t", "t", "p", "s", ":", "/", "/", "w", "e", "b", "f", "l", "o",
      "w", ".", "c", "o", "m", "\\", "@", "e", "v", "i", "l", ".", "c", "o",
      "m">>
UrlPlainHttp ==
    <<"h", "t", "t", "p", ":", "/", "/", "w", "e", "b", "f", "l", "o", "w",
      ".", "c", "o", "m", "/">>
UrlScript ==
    <<"j", "a", "v", "a", "s", "c", "r", "i", "p", "t", ":", "a", "l", "e",
      "r", "t", "(", "1", ")">>
UrlRelative ==
    <<"/", "d", "a", "s", "h", "b", "o", "a", "r", "d">>
RedirectInputs ==
    {Undef, DefaultRedirect, UrlDashboardCaps, UrlExtension, UrlLocalhost, UrlLoopback,
     UrlEvil, UrlEvilSuffix, UrlEvilUser, UrlEvilTwoLabels, UrlEvilBackslash,
     UrlPlainHttp, UrlScript, UrlRelative}

\* req.query.workspace
WorkspaceInputs == {Undef, <<"w">>, Blank}

AuthorizeEndpoint ==
    <<"h", "t", "t", "p", "s", ":", "/", "/", "w", "e", "b", "f", "l", "o",
      "w", ".", "c", "o", "m", "/", "o", "a", "u", "t", "h", "/", "a", "u",
      "t", "h", "o", "r", "i", "z", "e">>

\* What a GET /auth request carries as query and as Referer header: each URL as
\* redirectTo alone, each as Referer alone, and redirect, returnTo and Referer
\* behind an absent, an untrusted and a trusted redirectTo
Request(redirectTo, redirect, returnTo, referer) ==
    [query |-> [redirectTo |-> redirectTo, redirect |-> redirect, returnTo |-> returnTo],
     referer |-> referer]

AuthRequests ==
    {Request(u, Undef, Undef, Undef) : u \in RedirectInputs}
    \cup {Request(Undef, Undef, Undef, u) : u \in RedirectInputs}
    \cup {Request(Undef, UrlExtension, UrlEvil, UrlLocalhost),
          Request(Undef, Undef, UrlLocalhost, UrlEvil),
          Request(UrlEvil, UrlExtension, Undef, Undef),
          Request(<<>>, UrlEvil, UrlExtension, UrlLoopback),
          Request(UrlEvilUser, Undef, Undef, UrlDashboardCaps),
          Request(UrlLocalhost, UrlEvil, UrlEvil, UrlEvil)}

\* redirectHint of GET /auth
RedirectHint(query, referer) ==
    Or(Or(sanitizeRedirect(StringOr(Or(Or(query.redirectTo, query.redirect),
                                       query.returnTo))),
          sanitizeRedirect(StringOr(referer))),
       DefaultRedirect)

\* The redirectHint of each request
RedirectHints == {RedirectHint(request.query, request.referer) : request \in AuthRequests}

\* redirectAfter of GET /auth/callback
RedirectAfter(s) ==
    Or(sanitizeRedirect(StringOr(s.postAuthRedirect)), DefaultRedirect)

\* GET /auth: the hint is stored, the session saved, and the browser sent to
\* the authorize URL. When the save fails the answer is 500, and the store
\* holds the hint or not.
GetAuth ==
    /\ Idle
    /\ \E redirectHint \in RedirectHints, scope \in {AuthorizeScope(scopesEnv)},
          workspace \in WorkspaceInputs, saved, stored \in BOOLEAN :
         /\ saved => stored
         /\ session' = IF stored THEN [session EXCEPT !.postAuthRedirect = redirectHint]
                       ELSE session
         /\ resp' = IF ~saved
                    THEN [NoResp EXCEPT !.route = "auth", !.status = 500]
                    ELSE [NoResp EXCEPT
                            !.route = "auth", !.status = 302,
                            !.location = AuthorizeEndpoint,
                            !.scope = scope,
                            !.workspace =
                                IF Truthy(Trim(StringOr(workspace)))
                                THEN Trim(StringOr(workspace)) ELSE Undef]
    /\ UNCHANGED <<clock, nCallbacks, loggedOut, resolved, scopesEnv, frontendVars>>

-----------------------------------------------------------------------------
(* GET /auth/callback *)

\* idToName after the loop over the site list: its keys in insertion order and its names
RECURSIVE BuildIdToName(_, _)
BuildIdToName(list, acc) ==
    IF list = <<>> THEN acc
    ELSE LET id == Trim(StringOr(Head(list).id))
             name == Trim(StringOr(Head(list).displayName))
         IN  IF id = <<>> \/ name = <<>>
             THEN BuildIdToName(Tail(list), acc)
             ELSE BuildIdToName(Tail(list),
                    [keys |-> IF id \in DOMAIN acc.names THEN acc.keys
                              ELSE Append(acc.keys, id),
                     names |-> [k \in DOMAIN acc.names \cup {id} |->
                                  IF k = id THEN name ELSE acc.names[k]]])

IdToName(siteList) ==
    IF siteList.threw THEN [keys |-> <<>>, names |-> NoSites]
    ELSE BuildIdToName(siteList.value, [keys |-> <<>>, names |-> NoSites])

\* The siteIds the callback stores: the introspected ones, else the keys of idToName
ResolvedSiteIds(introspected, idToName) ==
    LET siteIds == IF introspected.threw THEN <<>> ELSE introspected.value
    IN  IF Len(siteIds) = 0 /\ Len(idToName.keys) > 0 THEN idToName.keys ELSE siteIds

\* The loop of upserts over siteIds; now is the callback's Date.now(), nowUpsert the
\* one each upsertAuthorizedSite reads
RECURSIVE UpsertAll(_, _, _, _, _, _)
UpsertAll(s, siteIds, token, idToName, now, nowUpsert) ==
    IF siteIds = <<>> THEN s
    ELSE LET siteId == Head(siteIds)
             patch == [accessToken |-> token.accessToken,
                       scopes |-> token.scope,
                       siteName |-> IF siteId \in DOMAIN idToName.names
                                    THEN idToName.names[siteId] ELSE Undef,
                       lastSeenAt |-> now]
         IN  UpsertAll(upsertAuthorizedSite(s, siteId, patch, nowUpsert),
                       Tail(siteIds), token, idToName, now, nowUpsert)

\* ?error=..., or no ?code=: redirect, nothing stored
CallbackNoExchange ==
    /\ Idle
    /\ nCallbacks < MaxCallbacks
    /\ nCallbacks' = nCallbacks + 1
    /\ resp' = [NoResp EXCEPT !.route = "callback", !.status = 302,
                              !.location = RedirectAfter(session)]
    /\ UNCHANGED <<session, clock, loggedOut, resolved, scopesEnv, frontendVars>>

TokenExchangeFailed ==
    <<"T", "o", "k", "e", "n", " ", "e", "x", "c", "h", "a", "n", "g", "e",
      " ", "f", "a", "i", "l", "e", "d">>

\* The body of a non-2xx answer of the token endpoint as res.json().catch(() =>
\* ({})) gives it: an error with message, code and details, one with a message
\* alone, and one that is no JSON
UpstreamErrors ==
    { [message |-> <<"m">>, code |-> <<"c">>, details |-> <<"d">>],
      [message |-> <<"m">>, code |-> Undef, details |-> Undef],
      [message |-> Undef, code |-> Undef, details |-> Undef] }

\* The non-2xx answers of the token endpoint
UpstreamFailures == [status : {400, 401}, data : UpstreamErrors]

\* new WebflowError(res.status, data?.message || "Token exchange failed", data,
\* res.headers), which exchangeCodeForToken throws
ExchangeError(answer) ==
    [webflowError |-> TRUE, status |-> answer.status,
     message |-> Or(answer.data.message, TokenExchangeFailed), body |-> answer.data]

\* An error handler that answers every error with 500
ErrorHandler_ServerError(err, route) ==
    [NoResp EXCEPT !.route = route, !.status = 500,
                   !.body = [message |-> <<"S">>, code |-> Undef, details |-> Undef]]

\* The error handler: the answer to an error a route of the name threw
ErrorHandler(err, route) ==
    IF err.webflowError
    THEN [NoResp EXCEPT !.route = route, !.status = err.status,
                        !.body = [message |-> err.message, code |-> err.body.code,
                                  details |-> err.body.details]]
    ELSE [NoResp EXCEPT !.route = route, !.status = 500,
                        !.body = [message |-> <<"S">>, code |-> Undef,
                                  details |-> Undef]]

\* A failed exchange that drops the session-wide token
CallbackExchangeFails_DropsToken ==
    /\ Idle
    /\ nCallbacks < MaxCallbacks
    /\ nCallbacks' = nCallbacks + 1
    /\ \E answer \in UpstreamFailures :
         resp' = [ErrorHandler(ExchangeError(answer), "callback") EXCEPT
                    !.upstream = answer]
    /\ session' = [session EXCEPT !.accessToken = Undef, !.scopes = Undef]
    /\ UNCHANGED <<clock, loggedOut, resolved, scopesEnv, frontendVars>>

\* The token endpoint answers with a non-2xx status: exchangeCodeForToken throws a
\* WebflowError, which the error handler answers with the upstream status
CallbackExchangeFails ==
    /\ Idle
    /\ nCallbacks < MaxCallbacks
    /\ nCallbacks' = nCallbacks + 1
    /\ \E answer \in UpstreamFailures :
         resp' = [ErrorHandler(ExchangeError(answer), "callback") EXCEPT
                    !.upstream = answer]
    /\ UNCHANGED <<session, clock, loggedOut, resolved, scopesEnv, frontendVars>>

\* What the loop of upserts found: the ids it stored (trimmed, not blank), the
\* firstSeenAt and the token of those that were in the map, the callback's now,
\* and the ids the site list offered as fallback
Upserts(s, siteIds, now, fallback) ==
    LET ids == {Trim(StringOr(siteIds[k])) : k \in 1..Len(siteIds)} \ {<<>>}
    IN  [ids |-> ids,
         before |-> [id \in ids \cap DOMAIN s.authorizedSites |->
                       [firstSeenAt |-> s.authorizedSites[id].firstSeenAt,
                        accessToken |-> s.authorizedSites[id].accessToken]],
         now |-> now,
         fallback |-> fallback]

\* The ids of the sites the site-list call returned (trimmed, not blank) when
\* the introspection gave no site ids, and no ids when it gave some
FallbackSiteIds(introspected, siteList) ==
    IF ~introspected.threw /\ introspected.value # <<>> THEN {}
    ELSE IF siteList.threw THEN {}
    ELSE {Trim(StringOr(siteList.value[k].id)) : k \in 1..Len(siteList.value)} \ {<<>>}

\* What the introspection and the site list leave the callback with: siteIds,
\* idToName, and the ids offered as fallback
CallbackAnswers ==
    {[siteIds |-> ResolvedSiteIds(introspected, IdToName(siteList)),
      idToName |-> IdToName(siteList),
      fallback |-> FallbackSiteIds(introspected, siteList)] :
        introspected \in IntrospectResults, siteList \in SiteListResults}

\* The exchange succeeds: token stored, sites resolved and upserted, session saved
CallbackOk ==
    /\ Idle
    /\ nCallbacks < MaxCallbacks
    /\ nCallbacks' = nCallbacks + 1
    /\ \E token \in TokenResults, answer \in CallbackAnswers, tick \in {0, 1} :
         LET idToName == answer.idToName
             siteIds == answer.siteIds
             nowUpsert == IF clock + tick > MaxClock THEN clock ELSE clock + tick
             s1 == [session EXCEPT !.accessToken = token.accessToken,
                                   !.scopes = token.scope]
         IN  /\ session' = UpsertAll(s1, siteIds, token, idToName, clock, nowUpsert)
             /\ clock' = nowUpsert
             /\ resolved' = Cardinality({i \in 1..Len(siteIds) :
                                            Trim(StringOr(siteIds[i])) # <<>>})
             /\ resp' = [NoResp EXCEPT !.route = "callback", !.status = 302,
                                       !.location = RedirectAfter(session),
                                       !.exchanged = TRUE,
                                       !.upserted =
                                           Upserts(session, siteIds, clock,
                                                   answer.fallback)]
    /\ loggedOut' = "no"
    /\ UNCHANGED <<scopesEnv, frontendVars>>

\* Time passes between two requests
Tick ==
    /\ Idle
    /\ clock < MaxClock
    /\ clock' = clock + 1
    /\ UNCHANGED <<session, resp, nCallbacks, loggedOut, resolved, scopesEnv,
                   frontendVars>>

-----------------------------------------------------------------------------
(* Session/auth query endpoints *)

\* GET /api/auth/status, compiled server
AuthStatus ==
    /\ Idle
    /\ session' = ensureAuthorizedSites(session)
    /\ resp' = [NoResp EXCEPT !.route = "status", !.status = 200,
                              !.authenticated = hasAnyAuthorization(session'),
                              !.siteIds = DOMAIN session'.authorizedSites]
    /\ UNCHANGED <<clock, nCallbacks, loggedOut, resolved, scopesEnv, frontendVars>>

\* GET /api/auth/status, TypeScript source
AuthStatusTs ==
    /\ Idle
    /\ resp' = [NoResp EXCEPT !.route = "status_ts", !.status = 200,
                              !.authenticated = hasAnyAuthorizationTs(session)]
    /\ UNCHANGED <<session, clock, nCallbacks, loggedOut, resolved, scopesEnv,
                   frontendVars>>

\* The collation order of the characters the model uses (localeCompare)
Collation == <<" ", "1", "2", "a", "A", "B", "s", "t">>

CharRank(c) == CHOOSE i \in 1..Len(Collation) : Collation[i] = c

\* a.localeCompare(b): -1, 0 or 1
RECURSIVE LocaleCompare(_, _)
LocaleCompare(a, b) ==
    IF a = <<>> /\ b = <<>> THEN 0
    ELSE IF a = <<>> THEN -1
    ELSE IF b = <<>> THEN 1
    ELSE IF CharRank(Head(a)) < CharRank(Head(b)) THEN -1
    ELSE IF CharRank(Head(a)) > CharRank(Head(b)) THEN 1
    ELSE LocaleCompare(Tail(a), Tail(b))

\* String(site.displayName || site.id)
SortKey(site) == IF Truthy(site.displayName) THEN site.displayName ELSE site.id

\* x put into the sorted sequence sorted, after the elements it does not precede
RECURSIVE InsertSorted(_, _)
InsertSorted(sorted, x) ==
    IF sorted = <<>> THEN <<x>>
    ELSE IF LocaleCompare(SortKey(x), SortKey(Head(sorted))) < 0 THEN <<x>> \o sorted
    ELSE <<Head(sorted)>> \o InsertSorted(Tail(sorted), x)

\* Array.prototype.sort with the route's comparator: a stable sort
RECURSIVE SortSites(_)
SortSites(list) ==
    IF list = <<>> THEN <<>>
    ELSE InsertSorted(SortSites(SubSeq(list, 1, Len(list) - 1)), list[Len(list)])

\* GET /api/sites
Sites ==
    /\ Idle
    /\ resp' = IF ~hasAnyAuthorization(session)
               THEN [NoResp EXCEPT !.route = "sites", !.status = 401]
               ELSE [NoResp EXCEPT
                       !.route = "sites", !.status = 200,
                       !.sites = SortSites(
                           [i \in 1..Len(session.siteOrder) |->
                              [id |-> session.siteOrder[i],
                               displayName |->
                                 session.authorizedSites[session.siteOrder[i]].siteName]])]
    /\ session' = IF hasAnyAuthorization(session)
                  THEN ensureAuthorizedSites(session) ELSE session
    /\ UNCHANGED <<clock, nCallbacks, loggedOut, resolved, scopesEnv, frontendVars>>

\* DELETE /api/sites/:siteId/assets/:assetId: the response
DeleteAssetResponse(s, siteParam, assetParam) ==
    LET siteId == Trim(StringOr(siteParam))
        assetId == Trim(StringOr(assetParam))
        token == getAccessTokenForSite(s, siteId)
        R(status) == [NoResp EXCEPT !.route = "delete", !.status = status,
                                    !.siteId = siteId, !.assetId = assetId]
    IN  IF ~hasAnyAuthorization(s) THEN R(401)
        ELSE IF siteId = <<>> \/ assetId = <<>> THEN R(400)
        ELSE IF ~HasTruthyProperty(s.authorizedSites, siteId) THEN R(403)
        ELSE IF token = <<>> THEN R(401)
        \* webflowApi.assets is undefined: reading .delete of it throws a TypeError,
        \* which is no WebflowError, so the error handler answers 500
        ELSE IF "assets" \notin webflowApi THEN [R(500) EXCEPT !.token = token]
        ELSE [R(204) EXCEPT !.token = token, !.extCall = TRUE]

DeleteAsset ==
    /\ Idle
    /\ \E siteParam \in SiteParams, assetParam \in AssetParams :
         /\ resp' = DeleteAssetResponse(session, siteParam, assetParam)
         /\ session' = IF resp'.status \in {401, 400} /\ resp'.token = Undef
                           /\ ~(hasAnyAuthorization(session)
                                /\ Trim(StringOr(siteParam)) # <<>>
                                /\ Trim(StringOr(assetParam)) # <<>>)
                        THEN session ELSE ensureAuthorizedSites(session)
    /\ UNCHANGED <<clock, nCallbacks, loggedOut, resolved, scopesEnv, frontendVars>>

\* POST /api/logout that drops the session-wide token and keeps the site map
Logout_KeepsSites ==
    /\ Idle
    /\ session' = [session EXCEPT !.accessToken = Undef, !.scopes = Undef]
    /\ resp' = [NoResp EXCEPT !.route = "logout", !.status = 204]
    /\ loggedOut' = IF hasAnyAuthorization(session) THEN "authorized" ELSE "anonymous"
    /\ resolved' = -1
    /\ UNCHANGED <<clock, nCallbacks, scopesEnv, frontendVars>>

\* POST /api/logout
Logout ==
    /\ Idle
    /\ session' = EmptySession
    /\ resp' = [NoResp EXCEPT !.route = "logout", !.status = 204]
    /\ loggedOut' = IF hasAnyAuthorization(session) THEN "authorized" ELSE "anonymous"
    /\ resolved' = -1
    /\ UNCHANGED <<clock, nCallbacks, scopesEnv, frontendVars>>

\* The response is sent and the request ends
SendResponse ==
    /\ ~Idle
    /\ resp' = NoResp
    /\ UNCHANGED <<session, clock, nCallbacks, loggedOut, resolved, scopesEnv,
                   frontendVars>>

-----------------------------------------------------------------------------
(* The extension: strings, JSON.stringify and the two scans of a payload *)

\* No scan result (scanResult is null), and no error message
NoResult ==
    [none |-> TRUE, images |-> <<>>,
     meta |-> [scannedPages |-> 0, scannedElements |-> 0, scannedStyles |-> 0,
               detectedReferences |-> 0, scannedAssets |-> 0]]
NoError == "none"

\* n copies of s, one after the other
RECURSIVE Repeat(_, _)
Repeat(s, n) == IF n = 0 THEN <<>> ELSE s \o Repeat(s, n - 1)


\* s.includes(sub), sub not empty
Includes(s, sub) ==
    \E i \in 1..Len(s) : i + Len(sub) - 1 <= Len(s) /\ SubSeq(s, i, i + Len(sub) - 1) = sub

\* The length of the ids that /[a-f0-9]{24}/gi matches
IdLen == 24

\* [a-f0-9] under the i flag
IsHex(c) ==
    c \in {"0", "1", "2", "3", "4", "5", "6", "7", "8", "9",
           "a", "b", "c", "d", "e", "f", "A", "B", "C", "D", "E", "F"}

HexAt(s, i) == \A k \in i..(i + IdLen - 1) : IsHex(s[k])

\* A scan that takes every window of 24 hex digits, overlapping ones too
RECURSIVE MatchIds_EveryWindow(_, _)
MatchIds_EveryWindow(s, i) ==
    IF i + IdLen - 1 > Len(s) THEN <<>>
    ELSE (IF HexAt(s, i) THEN <<SubSeq(s, i, i + IdLen - 1)>> ELSE <<>>)
         \o MatchIds_EveryWindow(s, i + 1)

\* s.match(/[a-f0-9]{24}/gi) || []: the matches from position i on, left to
\* right, each search resumed after the match before
RECURSIVE MatchIds(_, _)
MatchIds(s, i) ==
    IF i + IdLen - 1 > Len(s) THEN <<>>
    ELSE IF HexAt(s, i) THEN <<SubSeq(s, i, i + IdLen - 1)>> \o MatchIds(s, i + IdLen)
    ELSE MatchIds(s, i + 1)

\* [^\s"')]
IsUrlChar(c) == ~IsWhitespace(c) /\ c \notin {"\"", "'", ")"}

Http == <<"h", "t", "t", "p", ":", "/", "/">>
Https == <<"h", "t", "t", "p", "s", ":", "/", "/">>

\* The length of what https?:\/\/ matches at position i (0: no match)
SchemeAt(s, i) ==
    IF i + Len(Http) - 1 <= Len(s) /\ SubSeq(s, i, i + Len(Http) - 1) = Http
    THEN Len(Http)
    ELSE IF i + Len(Https) - 1 <= Len(s) /\ SubSeq(s, i, i + Len(Https) - 1) = Https
    THEN Len(Https)
    ELSE 0

\* The last position of the run of [^\s"')] characters that starts at i (i - 1: none)
RECURSIVE UrlEnd(_, _)
UrlEnd(s, i) ==
    IF i > Len(s) \/ ~IsUrlChar(s[i]) THEN i - 1 ELSE UrlEnd(s, i + 1)

\* s.match(/https?:\/\/[^\s"')]+/g) || []
RECURSIVE MatchUrls(_, _)
MatchUrls(s, i) ==
    IF i > Len(s) THEN <<>>
    ELSE LET p == SchemeAt(s, i)
             e == UrlEnd(s, i + p)
         IN  IF p > 0 /\ e >= i + p
             THEN <<SubSeq(s, i, e)>> \o MatchUrls(s, e + 1)
             ELSE MatchUrls(s, i + 1)

\* JSON.stringify of a string's characters: quotes and backslashes escaped
RECURSIVE JsonEscape(_)
JsonEscape(s) ==
    IF s = <<>> THEN <<>>
    ELSE (IF Head(s) \in {"\"", "\\"} THEN <<"\\", Head(s)>> ELSE <<Head(s)>>)
         \o JsonEscape(Tail(s))

\* JSON.stringify of an object of string properties, props a sequence of
\* [key, value] in the object's key order
RECURSIVE JsonMembers(_)
JsonMembers(props) ==
    IF props = <<>> THEN <<>>
    ELSE <<"\"">> \o JsonEscape(Head(props).key) \o <<"\"", ":", "\"">>
         \o JsonEscape(Head(props).value) \o <<"\"">>
         \o (IF Len(props) > 1 THEN <<",">> ELSE <<>>)
         \o JsonMembers(Tail(props))

\* What getProperties yields: null/undefined, a string, or an object of string
\* properties (props: its [key, value] pairs in key order)
NoPayload == [kind |-> "null", string |-> <<>>, props |-> <<>>]
StringPayload(s) == [kind |-> "string", string |-> s, props |-> <<>>]
ObjectPayload(props) == [kind |-> "object", string |-> <<>>, props |-> props]

\* typeof payload === "string" ? payload : JSON.stringify(payload)
PayloadString(payload) ==
    IF payload.kind = "string" THEN payload.string
    ELSE <<"{">> \o JsonMembers(payload.props) \o <<"}">>

-----------------------------------------------------------------------------
(* Vocabulary of the host document: assets, field contents, host answers *)

IdA == Repeat(<<"a", "1">>, 12)
IdB == Repeat(<<"b", "2">>, 12)
IdC == Repeat(<<"c", "3">>, 12)
IdD == Repeat(<<"d", "4">>, 12)
IdV == Repeat(<<"e", "5">>, 12)
IdX == Repeat(<<"f", "6">>, 12)

UrlA == Http \o <<"h", "/", "a">>
UrlB == Https \o <<"h", "/", "b">>
UrlC == Http \o <<"h", "/", "c">>
UrlV == Http \o <<"h", "/", "v">>
UrlX == Http \o <<"h", "/", "x">>

ImagePrefix == <<"i", "m", "a", "g", "e", "/">>
ImagePng == ImagePrefix \o <<"p", "n", "g">>
VideoMp4 == <<"v", "i", "d", "e", "o", "/", "m", "p", "4">>

\* An asset of the host: its id, what getMimeType and getUrl answer (mimeOk,
\* urlOk: the call does not throw), url being the asset's URL in the document
\* whether or not the call answers it. Asset names are only displayed and are
\* left out.
Asset(id, mime, mimeOk, url, urlOk) ==
    [id |-> id, mime |-> mime, mimeOk |-> mimeOk, url |-> url, urlOk |-> urlOk]

AssetA == Asset(IdA, ImagePng, TRUE, UrlA, TRUE)
AssetB == Asset(IdB, ImagePng, TRUE, UrlB, TRUE)
AssetC == Asset(IdC, ImagePng, TRUE, UrlC, TRUE)
\* an image whose getUrl throws
AssetCNoUrl == Asset(IdC, ImagePng, TRUE, UrlC, FALSE)
\* a second image with asset A's URL
AssetD == Asset(IdD, ImagePng, TRUE, UrlA, TRUE)
\* a video
AssetV == Asset(IdV, VideoMp4, TRUE, UrlV, TRUE)
\* an asset whose getMimeType throws
AssetX == Asset(IdX, ImagePng, FALSE, UrlX, TRUE)

\* What webflow.getAllAssets() answers
HostAssetLists ==
    { <<>>,
      <<AssetA, AssetB, AssetC>>,
      <<AssetV, AssetA, AssetX>>,
      <<AssetA, AssetD>>,
      <<AssetB, AssetCNoUrl>> }

\* The assets the host ever lists
HostAssets == {AssetA, AssetB, AssetC, AssetCNoUrl, AssetD, AssetV, AssetX}

BgKey == <<"b", "g">>

Prop(value) == [key |-> BgKey, value |-> value]

UrlOpen == <<"u", "r", "l", "(">>

\* What a style's getProperties() answers
Payloads ==
    { NoPayload,
      \* asset B's id, between characters that are no hex digits
      ObjectPayload(<<Prop(UrlOpen \o IdB \o <<")">>)>>),
      \* asset B's id right after a hex digit
      ObjectPayload(<<Prop(<<"f">> \o IdB)>>),
      \* asset C's URL up to a closing parenthesis
      ObjectPayload(<<Prop(UrlOpen \o UrlC \o <<")">>)>>),
      \* asset C's URL in quotes, which JSON.stringify escapes
      ObjectPayload(<<Prop(UrlOpen \o <<"\"">> \o UrlC \o <<"\"", ")">>)>>),
      \* a string payload: asset A's URL, then a space
      StringPayload(UrlA \o <<" ", "x">>) }

\* A field of the document as the sweep meets it: what the field holds, and
\* whether the host call that reads it answers (ok) or throws
Read(value, ok) == [value |-> value, ok |-> ok]

\* getProperties() of a style
PayloadReads ==
    {Read(p, TRUE) : p \in Payloads} \cup {Read(p, FALSE) : p \in Payloads \ {NoPayload}}

\* The id of the asset an element is bound to (getAsset, getBackgroundImage);
\* <<>>: none
AssetRefReads ==
    {Read(id, TRUE) : id \in {<<>>, IdA, IdB, IdV}} \cup {Read(IdA, FALSE)}

\* getOpenGraphImage(), getSearchImage() of a page; <<>>: none
SocialReads ==
    {Read(u, TRUE) : u \in {<<>>, UrlA, UrlC}} \cup {Read(UrlC, FALSE)}

-----------------------------------------------------------------------------
(* Bounds and constants of the sweep *)

MaxPages == 2
MaxElements == 1
MaxElementStyles == 1
MaxStyles == 1

\* const BATCH = 40
BATCH == 40

-----------------------------------------------------------------------------
(* runScan: the asset enumeration and the marking *)

\* The asset enumeration without the MIME test
RECURSIVE EnumerateImages_AnyMime(_)
EnumerateImages_AnyMime(allAssets) ==
    IF allAssets = <<>> THEN <<>>
    ELSE LET asset == Head(allAssets)
         IN  <<[id |-> asset.id,
                url |-> IF asset.urlOk THEN StringOr(asset.url) ELSE <<>>,
                mimeType |-> IF asset.mimeOk THEN StringOr(asset.mime) ELSE <<>>,
                used |-> FALSE]>>
             \o EnumerateImages_AnyMime(Tail(allAssets))

\* The asset enumeration: the image-MIME assets of the list, in its order
RECURSIVE EnumerateImages(_)
EnumerateImages(allAssets) ==
    IF allAssets = <<>> THEN <<>>
    ELSE LET asset == Head(allAssets)
             mimeType == IF asset.mimeOk THEN StringOr(asset.mime) ELSE <<>>
             url == IF asset.urlOk THEN StringOr(asset.url) ELSE <<>>
         IN  (IF ~StartsWith(mimeType, ImagePrefix) THEN <<>>
              ELSE <<[id |-> asset.id, url |-> url, mimeType |-> mimeType,
                      used |-> FALSE]>>)
             \o EnumerateImages(Tail(allAssets))

\* The positions of images whose entry is under key in a Map filled in the
\* order of images: the last image with that key
LastWith(images, field, key) ==
    {k \in 1..Len(images) :
        /\ images[k][field] = key
        /\ \A j \in (k + 1)..Len(images) : images[j][field] # key}

\* imageById.has(id)
ImageByIdHas(images, id) == LastWith(images, "id", id) # {}

\* urlToId.get(u): the id, <<>> for undefined (an image without URL is not in the map)
UrlToId(images, u) ==
    IF u # <<>> /\ LastWith(images, "url", u) # {}
    THEN images[CHOOSE k \in LastWith(images, "url", u) : TRUE].id
    ELSE <<>>

\* markUsed that counts every call for a known image
markUsed_CountsEveryMark(sw, assetId) ==
    IF assetId = <<>> \/ ~ImageByIdHas(sw.images, assetId) THEN sw
    ELSE LET k == CHOOSE j \in LastWith(sw.images, "id", assetId) : TRUE
         IN  [sw EXCEPT !.images[k].used = TRUE,
                        !.detectedReferences = @ + 1]

\* markUsed(assetId): the locals afterwards
markUsed(sw, assetId) ==
    IF assetId = <<>> \/ ~ImageByIdHas(sw.images, assetId) THEN sw
    ELSE LET k == CHOOSE j \in LastWith(sw.images, "id", assetId) : TRUE
         IN  IF sw.images[k].used THEN sw
             ELSE [sw EXCEPT !.images[k].used = TRUE,
                             !.detectedReferences = @ + 1]

\* for (const id of ids) if (imageById.has(id)) markUsed(id)
RECURSIVE MarkIds(_, _)
MarkIds(sw, ids) ==
    IF ids = <<>> THEN sw
    ELSE MarkIds(IF ImageByIdHas(sw.images, Head(ids)) THEN markUsed(sw, Head(ids)) ELSE sw,
                 Tail(ids))

\* for (const u of urls) { const id = urlToId.get(u); if (id) markUsed(id) }
RECURSIVE MarkUrls(_, _)
MarkUrls(sw, urls) ==
    IF urls = <<>> THEN sw
    ELSE MarkUrls(markUsed(sw, UrlToId(sw.images, Head(urls))), Tail(urls))

\* scanStylePayload(payload): the locals afterwards
scanStylePayload(sw, payload) ==
    IF payload.kind = "null" THEN sw
    ELSE LET s == PayloadString(payload)
         IN  MarkUrls(MarkIds(sw, MatchIds(s, 1)), MatchUrls(s, 1))

\* for (const props of propsList) scanStylePayload(props)
RECURSIVE ScanPayloads(_, _)
ScanPayloads(sw, propsList) ==
    IF propsList = <<>> THEN sw
    ELSE ScanPayloads(scanStylePayload(sw, Head(propsList)), Tail(propsList))

-----------------------------------------------------------------------------
(* What a field of the document references, and what a scan of it matches *)

\* The text of a payload before it is serialized: the string, or the values
TextsOf(payload) ==
    IF payload.kind = "string" THEN {payload.string}
    ELSE {payload.props[k].value : k \in 1..Len(payload.props)}

\* The host's assets that the enumeration listed as images
Listed(images) == {h \in HostAssets : \E k \in 1..Len(images) : images[k].id = h.id}

\* The host's assets each payload references: its text holds their id or
\* their URL
HostRefs ==
    [p \in Payloads |->
        {h \in HostAssets : \E t \in TextsOf(p) : Includes(t, h.id) \/ Includes(t, h.url)}]

\* The listed images a payload references
PayloadRefs(images, payload) == {a.id : a \in HostRefs[payload] \cap Listed(images)}

\* The listed image an element's asset binding references
AssetRefs(images, id) == {a.id : a \in {h \in Listed(images) : h.id = id}}

\* The listed images a social-preview image URL references
SocialRefs(images, u) == {a.id : a \in {h \in Listed(images) : h.url = u}}

\* The first position of the run of hex digits that holds position i
HexRunStart(s, i) ==
    CHOOSE j \in 1..i :
        /\ \A k \in j..i : IsHex(s[k])
        /\ j = 1 \/ ~IsHex(s[j - 1])

\* The 24-digit tokens of s: each run of hex digits cut into pieces of 24 from
\* its start, a remainder shorter than 24 dropped
IdTokens(s) ==
    {SubSeq(s, i, i + IdLen - 1) :
        i \in {j \in 1..(Len(s) - IdLen + 1) :
                 HexAt(s, j) /\ (j - HexRunStart(s, j)) % IdLen = 0}}

\* The first and last position of the run of [^\s"')] characters that holds i
UrlRunStart(s, i) ==
    CHOOSE j \in 1..i :
        /\ \A k \in j..i : IsUrlChar(s[k])
        /\ j = 1 \/ ~IsUrlChar(s[j - 1])

UrlRunEnd(s, i) ==
    CHOOSE e \in i..Len(s) :
        /\ \A k \in i..e : IsUrlChar(s[k])
        /\ e = Len(s) \/ ~IsUrlChar(s[e + 1])

\* The URL tokens of s: in each run of [^\s"')] characters, from the first
\* http:// or https:// that something follows to the end of the run
UrlTokens(s) ==
    {SubSeq(s, i, UrlRunEnd(s, i)) :
        i \in {j \in 1..Len(s) :
                 /\ SchemeAt(s, j) > 0
                 /\ j + SchemeAt(s, j) <= UrlRunEnd(s, j)
                 /\ \A h \in UrlRunStart(s, j)..(j - 1) : SchemeAt(s, h) = 0}}

\* The 24-digit tokens and the URL tokens of each payload's serialization
PayloadTokens ==
    [p \in Payloads \ {NoPayload} |->
        [ids |-> IdTokens(PayloadString(p)), urls |-> UrlTokens(PayloadString(p))]]

\* The images a payload's scan matches: a 24-digit token is their id, or a URL
\* token is their URL and no later image has that URL
PayloadMatches(images, payload) ==
    IF payload.kind = "null" THEN {}
    ELSE LET tokens == PayloadTokens[payload]
         IN  {images[k].id : k \in {j \in 1..Len(images) :
                \/ images[j].id \in tokens.ids
                \/ /\ images[j].url \in tokens.urls
                   /\ \A h \in (j + 1)..Len(images) : images[h].url # images[j].url}}

\* The image an asset binding matches
AssetRefMatches(images, id) ==
    {images[k].id : k \in {j \in 1..Len(images) : images[j].id = id}}

\* The image a social-preview image URL matches
SocialMatches(images, u) ==
    {images[k].id : k \in {j \in 1..Len(images) :
        /\ u # <<>>
        /\ images[j].url = u
        /\ \A h \in (j + 1)..Len(images) : images[h].url # u}}

-----------------------------------------------------------------------------
(* The authorization gate: refreshAuth, called when the extension mounts and *)
(* by the Refresh and Logout buttons of the gate screen                      *)

\* The refreshAuth calls in progress at a time
MaxRefreshes == 2

\* authGate before the first refreshAuth call ends
LoadingGate ==
    [status |-> "loading", siteId |-> <<>>, authorizedSites |-> <<>>,
     read |-> [apiBase |-> FALSE, auth |-> "unasked", sites |-> "unasked"]]

\* info?.siteId of webflow.getSiteInfo() (Undef: the host has no such
\* function, the call throws or it gives null)
SiteInfoReads == {Undef, S1, S1Padded, Blank}

\* api.authStatus(): null after a failed request, or the body's authenticated
AuthStatusReads == {"failed", "no", "yes"}

\* api.sites(): it throws, or the ids of the sites of its body
SitesReads ==
    {Threw} \cup {Returned(v) : v \in {<<>>, <<S2>>, <<S2, S1>>, <<S1Padded>>}}

\* A refreshAuth that does not look for the site among the sites returned
refreshAuth_AnySite(apiBase, info, auth, sites) ==
    LET siteId == Trim(StringOr(info))
        Gate(status, list, a, s) ==
            [status |-> status, siteId |-> siteId, authorizedSites |-> list,
             read |-> [apiBase |-> apiBase, auth |-> a, sites |-> s]]
    IN  IF ~apiBase THEN Gate("api_missing", <<>>, "unasked", "unasked")
        ELSE IF auth # "yes" THEN Gate("needs_auth", <<>>, auth, "unasked")
        ELSE IF sites.threw THEN Gate("needs_auth", <<>>, auth, "threw")
        ELSE Gate("ok", sites.value, auth, "listed")

\* The gate a refreshAuth call sets: apiBase is getApiBase() being non-empty
refreshAuth(apiBase, info, auth, sites) ==
    LET siteId == Trim(StringOr(info))
        Gate(status, list, a, s) ==
            [status |-> status, siteId |-> siteId, authorizedSites |-> list,
             read |-> [apiBase |-> apiBase, auth |-> a, sites |-> s]]
    IN  IF ~apiBase THEN Gate("api_missing", <<>>, "unasked", "unasked")
        ELSE IF auth # "yes" THEN Gate("needs_auth", <<>>, auth, "unasked")
        ELSE IF sites.threw THEN Gate("needs_auth", <<>>, auth, "threw")
        ELSE IF ~(siteId # <<>> /\ \E k \in 1..Len(sites.value) :
                                      sites.value[k] = siteId)
             THEN Gate("needs_site", sites.value, auth, "listed")
        ELSE Gate("ok", sites.value, auth, "listed")

\* The screens of the extension are rendered, not the gate screen
GateOk == authGate.status = "ok"

\* The Refresh button of the gate screen, or its Logout button once
\* api.logout() has ended: refreshAuth up to its first call
Refresh ==
    /\ authGate.status \notin {"ok", "loading"}
    /\ refreshing < MaxRefreshes
    /\ refreshing' = refreshing + 1
    /\ UNCHANGED <<authGate, sweepVars, uiVars, scanProgress, overlapVars,
                   batchVars, backendVars>>

\* The gates a refreshAuth call can set
GateResults ==
    {refreshAuth(apiBase, info, auth, sites) :
        apiBase \in BOOLEAN, info \in SiteInfoReads, auth \in AuthStatusReads,
        sites \in SitesReads}

\* A refreshAuth call from its first call to its end
RefreshAuthEnds ==
    /\ refreshing > 0
    /\ refreshing' = refreshing - 1
    /\ \E gate \in GateResults : authGate' = gate
    /\ UNCHANGED <<sweepVars, uiVars, scanProgress, overlapVars, batchVars,
                   backendVars>>

-----------------------------------------------------------------------------
(* runScan, one action per host call it awaits *)

\* No performDelete call has finished since the result was last replaced
NoReport == [finished |-> FALSE, deleted |-> {}, failed |-> {}, listed |-> {}]

\* The locals of runScan before the call. i: page index, el: element index,
\* st: index of the element's style or of the style batch; abandoned
\* (history): reset has left the scanning screen and the call is in progress;
\* removed (history): the ids performDelete calls have removed from the scan
\* result while the call is in progress
NoSweep ==
    [pc |-> "idle", abandoned |-> FALSE, removed |-> {}, images |-> <<>>, scannedAssets |-> 0, totalPages |-> 0, i |-> 0,
     nElements |-> 0, el |-> 0, nStyles |-> 0, st |-> 0,
     scannedPages |-> 0, scannedElements |-> 0, detectedReferences |-> 0,
     scannedStyles |-> 0, unusedCount |-> 0]

\* An updater that sets the capped value
updateProgress_Sets(prev, v) == IF v > 100 THEN 100 ELSE v

\* updateProgress(v) as an updater of scanProgress
updateProgress(prev, v) ==
    LET capped == IF v > 100 THEN 100 ELSE v
    IN  IF prev > capped THEN prev ELSE capped

\* Math.round(n / d) of integers n >= 0, d > 0
Round(n, d) == (2 * n + d) \div (2 * d)

\* pct of the page at index i of totalPages pages
PagePct(i, totalPages) == 28 + Round((i + 1) * 50, totalPages)

\* The progress when the page loop has gone on to sw: updateProgress(82) at
\* its end
LeavePages(sw, prev) == IF sw.pc = "styles" THEN updateProgress(prev, 82) ELSE prev

\* The runScan call of these locals has started and not ended
InFlight(sw) == sw.pc \notin {"idle", "done"}

\* The Scan button, no result of an earlier scan being held: runScan up to its
\* first host call
RunScan ==
    /\ GateOk
    /\ sweep.pc \in {"idle", "done"}
    /\ scanResult.none
    /\ screen \in {"intro", "success", "results"}
    /\ ~deleting
    /\ ~confirmState.open
    /\ sweep' = [NoSweep EXCEPT !.pc = "assets"]
    /\ error' = NoError
    /\ selectedIds' = {}
    /\ selectAlls' = 0
    /\ screen' = "scanning"
    /\ scanTick' = TRUE
    /\ refDoc' = {}
    /\ refRead' = {}
    /\ switched' = 0
    /\ scanProgress' = updateProgress(0, 10)
    /\ UNCHANGED <<scanResult, deleteVars, overlapVars,
                   gateVars, batchVars, backendVars>>

\* getAllAssets is no function, or a host call outside the inner try blocks
\* throws (getAllAssets, getAllPagesAndFolders, getAllElements, getAllStyles):
\* the catch block of runScan
ScanThrows ==
    /\ sweep.pc \in {"assets", "pages", "elements", "styles"}
    /\ sweep' = [sweep EXCEPT !.pc = "idle", !.abandoned = FALSE, !.removed = {}]
    /\ scanTick' = FALSE
    /\ error' = "scan"
    /\ screen' = "intro"
    /\ scanProgress' = 0
    /\ UNCHANGED <<scanResult, selectedIds, selectAlls, deleteVars, refDoc, refRead, switched, overlapVars,
                   gateVars, batchVars, backendVars>>

\* webflow.getAllAssets() answers; the assets' MIME types and URLs are read
GetAllAssets ==
    /\ sweep.pc = "assets"
    /\ \E allAssets \in HostAssetLists :
         sweep' = [sweep EXCEPT !.pc = "pages",
                                !.images = EnumerateImages(allAssets),
                                !.scannedAssets = Len(allAssets)]
    /\ scanProgress' = updateProgress(scanProgress, 20)
    /\ UNCHANGED <<refDoc, refRead, switched, uiVars, overlapVars,
                   gateVars, batchVars, backendVars>>

\* webflow.getAllPagesAndFolders() answers: the items of type Page
GetAllPagesAndFolders ==
    /\ sweep.pc = "pages"
    /\ \E n \in 0..MaxPages :
         sweep' = [sweep EXCEPT !.pc = IF n = 0 THEN "styles" ELSE "switch",
                                !.totalPages = n, !.i = 0]
    /\ scanProgress' = LeavePages(sweep', updateProgress(scanProgress, 28))
    /\ UNCHANGED <<refDoc, refRead, switched, uiVars, overlapVars,
                   gateVars, batchVars, backendVars>>

\* Where the page loop goes after page i
AfterPage(sw) ==
    [sw EXCEPT !.i = @ + 1,
               !.pc = IF sw.i + 1 < sw.totalPages THEN "switch" ELSE "styles"]

\* webflow.switchPage(page) resolves
SwitchPage ==
    /\ sweep.pc = "switch"
    /\ sweep' = [sweep EXCEPT !.pc = "elements", !.scannedPages = @ + 1]
    /\ switched' = switched + 1
    /\ UNCHANGED <<refDoc, refRead, uiVars, scanProgress, overlapVars,
                   gateVars, batchVars, backendVars>>

\* webflow.switchPage(page) throws: continue. The page's elements stay unread;
\* bound is the asset one of them is bound to.
SwitchPageFails ==
    /\ sweep.pc = "switch"
    /\ sweep' = AfterPage(sweep)
    /\ \E bound \in {<<>>, IdA, IdB} : refDoc' = refDoc \cup AssetRefs(sweep.images, bound)
    /\ scanProgress' = LeavePages(sweep', scanProgress)
    /\ UNCHANGED <<refRead, switched, uiVars, overlapVars,
                   gateVars, batchVars, backendVars>>

\* webflow.getAllElements() answers n elements
GetAllElements ==
    /\ sweep.pc = "elements"
    /\ \E n \in 0..MaxElements :
         sweep' = [sweep EXCEPT !.pc = IF n = 0 THEN "og" ELSE "el_asset",
                                !.nElements = n, !.el = 0,
                                !.scannedElements = @ + n]
    /\ UNCHANGED <<refDoc, refRead, switched, uiVars, scanProgress, overlapVars,
                   gateVars, batchVars, backendVars>>

\* An asset lookup that marks the asset although getAsset() threw
ElementAsset_MarksUnread ==
    /\ sweep.pc = "el_asset"
    /\ \E r \in AssetRefReads :
         /\ sweep' = [markUsed(sweep, r.value) EXCEPT !.pc = "el_styles"]
         /\ refDoc' = refDoc \cup AssetRefs(sweep.images, r.value)
         /\ refRead' = refRead \cup
                (IF r.ok THEN AssetRefMatches(sweep.images, r.value) ELSE {})
    /\ UNCHANGED <<switched, uiVars, scanProgress, overlapVars,
                   gateVars, batchVars, backendVars>>

\* An Image element's getAsset() (other elements: no binding)
ElementAsset ==
    /\ sweep.pc = "el_asset"
    /\ \E r \in AssetRefReads :
         /\ sweep' = [(IF r.ok THEN markUsed(sweep, r.value) ELSE sweep)
                        EXCEPT !.pc = "el_styles"]
         /\ refDoc' = refDoc \cup AssetRefs(sweep.images, r.value)
         /\ refRead' = refRead \cup
                (IF r.ok THEN AssetRefMatches(sweep.images, r.value) ELSE {})
    /\ UNCHANGED <<switched, uiVars, scanProgress, overlapVars,
                   gateVars, batchVars, backendVars>>

\* el.getStyles() answers n styles (none when it is missing or throws)
ElementStyles ==
    /\ sweep.pc = "el_styles"
    /\ \E n \in 0..MaxElementStyles :
         sweep' = [sweep EXCEPT !.pc = IF n = 0 THEN "el_style" ELSE "el_styles_props",
                                !.nStyles = n, !.st = 0]
    /\ UNCHANGED <<refDoc, refRead, switched, uiVars, scanProgress, overlapVars,
                   gateVars, batchVars, backendVars>>

\* What reading a payload leaves in the locals and in the histories
ReadPayload(r, pcAfter, stAfter) ==
    LET props == IF r.ok THEN r.value ELSE NoPayload
    IN  /\ sweep' = [scanStylePayload(sweep, props) EXCEPT !.pc = pcAfter, !.st = stAfter]
        /\ refDoc' = refDoc \cup PayloadRefs(sweep.images, r.value)
        /\ refRead' = refRead \cup PayloadMatches(sweep.images, props)

\* st.getProperties() of one of the element's styles, then scanStylePayload
ElementStylesProps ==
    /\ sweep.pc = "el_styles_props"
    /\ \E r \in PayloadReads :
         ReadPayload(r, IF sweep.st + 1 < sweep.nStyles THEN "el_styles_props"
                        ELSE "el_style", sweep.st + 1)
    /\ UNCHANGED <<switched, uiVars, scanProgress, overlapVars,
                   gateVars, batchVars, backendVars>>

\* el.getStyle() and its getProperties(), then scanStylePayload
ElementStyle ==
    /\ sweep.pc = "el_style"
    /\ \E r \in PayloadReads : ReadPayload(r, "el_bg", 0)
    /\ UNCHANGED <<switched, uiVars, scanProgress, overlapVars,
                   gateVars, batchVars, backendVars>>

\* el.getBackgroundImage(); then the next element, or the page's social images
ElementBackground ==
    /\ sweep.pc = "el_bg"
    /\ \E r \in AssetRefReads :
         /\ sweep' = [(IF r.ok THEN markUsed(sweep, r.value) ELSE sweep)
                        EXCEPT !.el = @ + 1,
                               !.pc = IF sweep.el + 1 < sweep.nElements
                                      THEN "el_asset" ELSE "og"]
         /\ refDoc' = refDoc \cup AssetRefs(sweep.images, r.value)
         /\ refRead' = refRead \cup
                (IF r.ok THEN AssetRefMatches(sweep.images, r.value) ELSE {})
    /\ UNCHANGED <<switched, uiVars, scanProgress, overlapVars,
                   gateVars, batchVars, backendVars>>

\* What reading a social-preview image URL leaves in the locals and histories
ReadSocial(r, after(_)) ==
    LET u == IF r.ok THEN r.value ELSE <<>>
    IN  /\ sweep' = after(IF u # <<>> THEN markUsed(sweep, UrlToId(sweep.images, u))
                          ELSE sweep)
        /\ refDoc' = refDoc \cup SocialRefs(sweep.images, r.value)
        /\ refRead' = refRead \cup SocialMatches(sweep.images, u)

ToSearch(sw) == [sw EXCEPT !.pc = "search"]

\* page.getOpenGraphImage()
PageOpenGraph ==
    /\ sweep.pc = "og"
    /\ \E r \in SocialReads : ReadSocial(r, ToSearch)
    /\ UNCHANGED <<switched, uiVars, scanProgress, overlapVars,
                   gateVars, batchVars, backendVars>>

\* page.getSearchImage(); then the next page, or the style pass
PageSearch ==
    /\ sweep.pc = "search"
    /\ \E r \in SocialReads : ReadSocial(r, AfterPage)
    /\ scanProgress' = LeavePages(sweep', updateProgress(scanProgress,
                                        PagePct(sweep.i, sweep.totalPages)))
    /\ UNCHANGED <<switched, uiVars, overlapVars,
                   gateVars, batchVars, backendVars>>

\* The sequences of length n of elements of S
RECURSIVE SeqsOf(_, _)
SeqsOf(S, n) ==
    IF n = 0 THEN {<<>>} ELSE {<<x>> \o t : x \in S, t \in SeqsOf(S, n - 1)}

\* getProperties() of a style of webflow.getAllStyles()
GlobalPayloadReads ==
    {r \in PayloadReads :
        \/ r.value.kind = "null"
        \/ r.value.kind = "object" /\ r.ok /\ IdB \in IdTokens(PayloadString(r.value))
        \/ r.value.kind = "object" /\ ~r.ok /\ UrlC \in UrlTokens(PayloadString(r.value))
        \/ r.value.kind = "string" /\ r.ok}

\* webflow.getAllStyles() answers n styles (none when it is no function)
GetAllStyles ==
    /\ sweep.pc = "styles"
    /\ \E n \in 0..MaxStyles :
         sweep' = [sweep EXCEPT !.pc = IF n = 0 THEN "finish" ELSE "batch",
                                !.scannedStyles = n, !.st = 0]
    /\ UNCHANGED <<refDoc, refRead, switched, uiVars, scanProgress, overlapVars,
                   gateVars, batchVars, backendVars>>

Min(a, b) == IF a < b THEN a ELSE b

\* The values of a sequence of reads
ValuesOf(reads) == [k \in 1..Len(reads) |-> reads[k].value]

\* What the scan gets of a sequence of reads: null for a call that throws
PropsOf(reads) ==
    [k \in 1..Len(reads) |-> IF reads[k].ok THEN reads[k].value ELSE NoPayload]

\* The union of f over the elements of a sequence
RECURSIVE UnionOver(_, _)
UnionOver(f(_), seq) ==
    IF seq = <<>> THEN {} ELSE f(Head(seq)) \cup UnionOver(f, Tail(seq))

\* One batch of the style pass: Promise.all over the getProperties() of
\* styles.slice(i, i + BATCH), then scanStylePayload of each in order
StyleBatch ==
    /\ sweep.pc = "batch"
    /\ \E reads \in SeqsOf(GlobalPayloadReads, Min(BATCH, sweep.scannedStyles - sweep.st)) :
         LET propsList == PropsOf(reads)
             MatchesOf(props) == PayloadMatches(sweep.images, props)
             RefsOf(value) == PayloadRefs(sweep.images, value)
         IN  /\ sweep' = [ScanPayloads(sweep, propsList) EXCEPT
                            !.st = @ + BATCH,
                            !.pc = IF sweep.st + BATCH < sweep.scannedStyles
                                   THEN "batch" ELSE "finish"]
             /\ refDoc' = refDoc \cup UnionOver(RefsOf, ValuesOf(reads))
             /\ refRead' = refRead \cup UnionOver(MatchesOf, propsList)
    /\ scanProgress' = updateProgress(scanProgress,
                          82 + Round((sweep.st + BATCH) * 15,
                                     IF sweep.scannedStyles < 1 THEN 1
                                     ELSE sweep.scannedStyles))
    /\ UNCHANGED <<switched, uiVars, overlapVars,
                   gateVars, batchVars, backendVars>>

\* The same loop fetch by fetch.  The styles are the host's Style objects, whose
\* getProperties() returns a promise; the fetches of one batch differ only in
\* the style they read, so the model keeps how many of them are unsettled.
MaxFetchStyles == 83

\* No style pass in progress
NoStyleLoop == [pc |-> "off", n |-> 0, i |-> 0, fetches |-> <<>>, unsettled |-> <<>>]

\* styles = (await webflow.getAllStyles()) || []; the loop starts with i = 0
StylePassStarts ==
    /\ styleLoop.pc = "off"
    /\ \E n \in 0..MaxFetchStyles :
         styleLoop' = [pc |-> IF 0 < n THEN "slice" ELSE "done", n |-> n, i |-> 0,
                       fetches |-> [k \in 1..n |-> 0], unsettled |-> <<>>]
    /\ UNCHANGED <<progressRun, sweepVars, uiVars, scanProgress, overlapVars,
                   gateVars, backendVars>>

\* styles.slice(i, i + BATCH), as the set of the positions it takes
Slice(loop) == (loop.i + 1)..Min(loop.i + BATCH, loop.n)

\* batch.map((s) => s.getProperties?.().catch(() => null)): the fetches of the
\* slice all start before Promise.all is awaited
StartBatch ==
    /\ styleLoop.pc = "slice"
    /\ styleLoop' = [styleLoop EXCEPT
                       !.pc = "await",
                       !.fetches = [k \in 1..styleLoop.n |->
                                      IF k \in Slice(styleLoop) THEN @[k] + 1 ELSE @[k]],
                       !.unsettled = Append(@, Cardinality(Slice(styleLoop)))]
    /\ UNCHANGED <<progressRun, sweepVars, uiVars, scanProgress, overlapVars,
                   gateVars, backendVars>>

\* One fetch fulfils, or rejects and is caught by its .catch(() => null)
FetchSettles ==
    /\ \E k \in 1..Len(styleLoop.unsettled) :
         /\ styleLoop.unsettled[k] > 0
         /\ styleLoop' = [styleLoop EXCEPT !.unsettled[k] = @ - 1]
    /\ UNCHANGED <<progressRun, sweepVars, uiVars, scanProgress, overlapVars,
                   gateVars, backendVars>>

\* A run that resumes from the await without waiting for the batch
AllSettled_NoWait(loop) == TRUE

\* await Promise.all(...): none of the promises rejects, so the await resumes
\* when the last fetch of the batch has settled
AllSettled(loop) == loop.unsettled[Len(loop.unsettled)] = 0

\* The await resumes; i += BATCH; i < styles.length
BatchDone ==
    /\ styleLoop.pc = "await"
    /\ AllSettled(styleLoop)
    /\ styleLoop' = [styleLoop EXCEPT
                       !.i = @ + BATCH,
                       !.pc = IF styleLoop.i + BATCH < styleLoop.n
                              THEN "slice" ELSE "done"]
    /\ UNCHANGED <<progressRun, sweepVars, uiVars, scanProgress, overlapVars,
                   gateVars, backendVars>>

\* runScan, reset and the timer as far as they touch scanProgress.  What the
\* host answers counts only by the number of pages and of styles; one runScan
\* call is followed at a time.
MaxProgressPages == 3

\* styles.length of the style pass: none, one, a full batch, one more, and more
\* than two batches
ProgressStyleCounts == {0, 1, BATCH, BATCH + 1, 2 * BATCH + 3}

\* useState(0), no interval, the intro screen
NoProgressRun ==
    [pc |-> "off", progress |-> 0, tick |-> FALSE, scanning |-> FALSE,
     totalPages |-> 0, i |-> 0, styles |-> 0, st |-> 0, pct |-> -1]

\* runScan up to its first await: setScreen("scanning"), setScanProgress(0),
\* the interval is set
ProgressRunScan ==
    /\ progressRun.pc \in {"off", "done"}
    /\ ~progressRun.scanning
    /\ progressRun' = [NoProgressRun EXCEPT !.pc = "size", !.tick = TRUE,
                                            !.scanning = TRUE]
    /\ UNCHANGED <<styleLoop, sweepVars, uiVars, scanProgress, overlapVars,
                   gateVars, backendVars>>

\* setInterval's callback: setScanProgress((p) => (p >= 92 ? p : p + 1))
ProgressTick ==
    /\ progressRun.tick
    /\ progressRun' = [progressRun EXCEPT !.progress = IF @ >= 92 THEN @ ELSE @ + 1]
    /\ UNCHANGED <<styleLoop, sweepVars, uiVars, scanProgress, overlapVars,
                   gateVars, backendVars>>

\* setExtensionSize has settled: updateProgress(10)
ProgressSized ==
    /\ progressRun.pc = "size"
    /\ progressRun' = [progressRun EXCEPT !.pc = "assets",
                                          !.progress = updateProgress(@, 10)]
    /\ UNCHANGED <<styleLoop, sweepVars, uiVars, scanProgress, overlapVars,
                   gateVars, backendVars>>

\* The assets are enumerated: updateProgress(20)
ProgressAssets ==
    /\ progressRun.pc = "assets"
    /\ progressRun' = [progressRun EXCEPT !.pc = "list",
                                          !.progress = updateProgress(@, 20)]
    /\ UNCHANGED <<styleLoop, sweepVars, uiVars, scanProgress, overlapVars,
                   gateVars, backendVars>>

\* The progress when the page loop has gone on to the locals run:
\* updateProgress(82) at its end
ProgressLeavePages(run) ==
    IF run.i < run.totalPages THEN run
    ELSE [run EXCEPT !.pc = "styles", !.progress = updateProgress(@, 82)]

\* getAllPagesAndFolders answers with totalPages pages: updateProgress(28)
ProgressPagesListed ==
    /\ progressRun.pc = "list"
    /\ \E totalPages \in 0..MaxProgressPages :
         progressRun' = ProgressLeavePages(
                            [progressRun EXCEPT !.pc = "page",
                                                !.totalPages = totalPages,
                                                !.progress = updateProgress(@, 28)])
    /\ UNCHANGED <<styleLoop, sweepVars, uiVars, scanProgress, overlapVars,
                   gateVars, backendVars>>

\* switchPage throws: continue
ProgressSwitchPageFails ==
    /\ progressRun.pc = "page"
    /\ progressRun' = ProgressLeavePages([progressRun EXCEPT !.i = @ + 1])
    /\ UNCHANGED <<styleLoop, sweepVars, uiVars, scanProgress, overlapVars,
                   gateVars, backendVars>>

\* The end of the loop's body for the page at index i:
\* if (totalPages > 0) updateProgress(pct)
ProgressPageDone ==
    /\ progressRun.pc = "page"
    /\ LET pct == PagePct(progressRun.i, progressRun.totalPages)
       IN  progressRun' =
               ProgressLeavePages(
                   IF progressRun.totalPages > 0
                   THEN [progressRun EXCEPT !.i = @ + 1, !.pct = pct,
                                            !.progress = updateProgress(@, pct)]
                   ELSE [progressRun EXCEPT !.i = @ + 1])
    /\ UNCHANGED <<styleLoop, sweepVars, uiVars, scanProgress, overlapVars,
                   gateVars, backendVars>>

\* getAllStyles answers, or is no function (no style)
ProgressStylesListed ==
    /\ progressRun.pc = "styles"
    /\ \E n \in ProgressStyleCounts :
         progressRun' = [progressRun EXCEPT !.styles = n,
                                            !.pc = IF 0 < n THEN "batch" ELSE "finish"]
    /\ UNCHANGED <<styleLoop, sweepVars, uiVars, scanProgress, overlapVars,
                   gateVars, backendVars>>

\* A batch has settled:
\* updateProgress(82 + Math.round(((i + BATCH) / Math.max(1, styles.length)) * 15))
ProgressBatch ==
    /\ progressRun.pc = "batch"
    /\ progressRun' =
           [progressRun EXCEPT
              !.st = @ + BATCH,
              !.pc = IF progressRun.st + BATCH < progressRun.styles
                     THEN "batch" ELSE "finish",
              !.progress = updateProgress(@,
                              82 + Round((progressRun.st + BATCH) * 15,
                                         IF progressRun.styles < 1 THEN 1
                                         ELSE progressRun.styles))]
    /\ UNCHANGED <<styleLoop, sweepVars, uiVars, scanProgress, overlapVars,
                   gateVars, backendVars>>

\* clearScanTick(); updateProgress(100); the result's screen is shown
ProgressFinish ==
    /\ progressRun.pc = "finish"
    /\ progressRun' = [progressRun EXCEPT !.pc = "done", !.tick = FALSE,
                                          !.scanning = FALSE,
                                          !.progress = updateProgress(@, 100)]
    /\ UNCHANGED <<styleLoop, sweepVars, uiVars, scanProgress, overlapVars,
                   gateVars, backendVars>>

\* A host call outside the inner try blocks throws: the catch block calls
\* clearScanTick(), setScanProgress(0), setScreen("intro")
ProgressThrows ==
    /\ progressRun.pc \in {"assets", "list", "page", "styles"}
    /\ progressRun' = [progressRun EXCEPT !.pc = "off", !.tick = FALSE,
                                          !.scanning = FALSE, !.progress = 0]
    /\ UNCHANGED <<styleLoop, sweepVars, uiVars, scanProgress, overlapVars,
                   gateVars, backendVars>>

\* reset, from the scanning screen or from the screen of a result:
\* setScanProgress(0), setScreen("intro"); the call and the interval go on
ProgressReset ==
    /\ progressRun.scanning \/ progressRun.pc = "done"
    /\ progressRun' = [progressRun EXCEPT
                         !.scanning = FALSE, !.progress = 0,
                         !.pc = IF @ = "done" THEN "off" ELSE @]
    /\ UNCHANGED <<styleLoop, sweepVars, uiVars, scanProgress, overlapVars,
                   gateVars, backendVars>>

\* rows: images.map(...)
Rows(images) ==
    [k \in 1..Len(images) |->
        [id |-> images[k].id, url |-> images[k].url, mimeType |-> images[k].mimeType,
         isUnused |-> ~images[k].used]]

\* rows.filter((r) => r.isUnused).length
UnusedCount(rows) == Cardinality({k \in 1..Len(rows) : rows[k].isUnused})

\* The end of runScan: the result is stored and shown
FinishScan ==
    /\ sweep.pc = "finish"
    /\ LET rows == Rows(sweep.images)
       IN  /\ scanResult' =
                [none |-> FALSE, images |-> rows,
                 meta |-> [scannedPages |-> sweep.scannedPages,
                           scannedElements |-> sweep.scannedElements,
                           scannedStyles |-> sweep.scannedStyles,
                           detectedReferences |-> sweep.detectedReferences,
                           scannedAssets |-> sweep.scannedAssets]]
           /\ sweep' = [sweep EXCEPT !.pc = "done", !.abandoned = FALSE, !.removed = {},
                                     !.unusedCount = UnusedCount(rows)]
           /\ screen' = IF UnusedCount(rows) = 0 THEN "success" ELSE "results"
    /\ scanTick' = FALSE
    /\ delReport' = NoReport
    /\ scanProgress' = updateProgress(scanProgress, 100)
    /\ UNCHANGED <<error, selectedIds, selectAlls, deleting, deleteProgress, confirmState, del,
                   refDoc, refRead, switched, overlapVars,
                   gateVars, batchVars, backendVars>>

-----------------------------------------------------------------------------
(* The screens' controls and the delete pipeline. The extension is shown only *)
(* while authGate.status is "ok", which refreshAuth sets only with a site id,  *)
(* so performDelete always calls the backend. The search box only narrows the  *)
(* rows on display and is left out; a row can be toggled when it is unused.    *)

ListedIds(result) ==
    IF result.none THEN {} ELSE {result.images[k].id : k \in 1..Len(result.images)}

\* allUnusedIds
AllUnusedIds(result) ==
    IF result.none THEN {}
    ELSE {result.images[k].id : k \in {j \in 1..Len(result.images) :
                                          result.images[j].isUnused}}

NoConfirm == [open |-> FALSE, selectedIds |-> {}, scanResult |-> NoResult]

\* The locals of performDelete before the call. todo: the ids of the loop not
\* yet reached; scanResult: the result the closure captured; listed (history):
\* the ids of the rows when the call started
\* removed (history): the ids whose backend call or whose removal call on the
\* host succeeded; tried (history): the ids of the rounds taken, in their order
NoDelete ==
    [pc |-> "idle", ids |-> {}, todo |-> {}, deleted |-> {}, failed |-> {},
     authFailed |-> FALSE, scopeFailed |-> FALSE, scanResult |-> NoResult,
     listed |-> {}, removed |-> {}, tried |-> <<>>]

\* useState<{ done: number; total: number } | null>(null)
NoProgress == [none |-> TRUE, done |-> 0, total |-> 0]

\* The results screen is shown and the confirm dialog does not cover it
ResultsShown == screen \notin {"intro", "scanning", "success"} /\ ~confirmState.open

\* reset: "Cancel & go back" of the scanning screen, "Back" of the success
\* screen (disabled while deleting), "Back to start" of the results screen
Reset ==
    /\ GateOk
    /\ \/ screen = "scanning"
       \/ screen = "success" /\ ~deleting
       \/ ResultsShown
    /\ scanResult' = NoResult
    /\ error' = NoError
    /\ selectedIds' = {}
    /\ selectAlls' = 0
    /\ screen' = "intro"
    /\ delReport' = NoReport
    /\ scanProgress' = 0
    /\ sweep' = IF screen = "scanning" /\ InFlight(sweep)
                THEN [sweep EXCEPT !.abandoned = TRUE] ELSE sweep
    /\ UNCHANGED <<scanTick, deleting, deleteProgress, confirmState, del, refDoc, refRead, switched,
                   overlapVars, gateVars, batchVars, backendVars>>

\* A runScan whose locals outlive the call: the Rescan buttons
Rescan_KeepsLocals ==
    /\ GateOk
    /\ sweep.pc \in {"idle", "done"}
    /\ ~scanResult.none
    /\ screen = "success" \/ ResultsShown
    /\ ~deleting
    /\ sweep' = [sweep EXCEPT !.pc = "assets"]
    /\ error' = NoError
    /\ selectedIds' = {}
    /\ selectAlls' = 0
    /\ screen' = "scanning"
    /\ scanTick' = TRUE
    /\ scanProgress' = updateProgress(0, 10)
    /\ UNCHANGED <<scanResult, deleteVars, refDoc, refRead, switched, overlapVars,
                   gateVars, batchVars, backendVars>>

\* The Rescan buttons, a result being held: runScan up to its first host call
Rescan ==
    /\ GateOk
    /\ sweep.pc \in {"idle", "done"}
    /\ ~scanResult.none
    /\ screen = "success" \/ ResultsShown
    /\ ~deleting
    /\ sweep' = [NoSweep EXCEPT !.pc = "assets"]
    /\ error' = NoError
    /\ selectedIds' = {}
    /\ selectAlls' = 0
    /\ screen' = "scanning"
    /\ scanTick' = TRUE
    /\ scanProgress' = updateProgress(0, 10)
    /\ UNCHANGED <<scanResult, deleteVars, refDoc, refRead, switched, overlapVars,
                   gateVars, batchVars, backendVars>>

\* What the passes leave in the counters of a result, which the screens only
\* display: of a document without pages and styles, and of one with MaxPages
\* pages of MaxElements elements and MaxStyles styles, all scanned
SweepCounts ==
    { [scannedPages |-> 0, scannedElements |-> 0, scannedStyles |-> 0],
      [scannedPages |-> MaxPages, scannedElements |-> MaxPages * MaxElements,
       scannedStyles |-> MaxStyles] }

\* The result of a sweep that listed images, marked those at the positions used
\* and left the counters c
SweepResult(images, scannedAssets, used, c) ==
    [none |-> FALSE,
     images |-> [k \in 1..Len(images) |->
                   [id |-> images[k].id, url |-> images[k].url,
                    mimeType |-> images[k].mimeType, isUnused |-> k \notin used]],
     meta |-> [scannedPages |-> c.scannedPages, scannedElements |-> c.scannedElements,
               scannedStyles |-> c.scannedStyles,
               detectedReferences |-> Cardinality(used),
               scannedAssets |-> scannedAssets]]

\* A whole sweep from its first host call to the stored result, the passes
\* taken together: the images of the list the host answers, any of them
\* marked when a page or a style was scanned
SweepToEnd ==
    /\ sweep.pc = "assets"
    /\ \E allAssets \in HostAssetLists, c \in SweepCounts :
         LET images == EnumerateImages(allAssets)
         IN  \E used \in SUBSET (1..Len(images)) :
               /\ used # {} => c.scannedPages + c.scannedStyles > 0
               /\ scanResult' = SweepResult(images, Len(allAssets), used, c)
               /\ sweep' = [sweep EXCEPT
                              !.pc = "done", !.abandoned = FALSE, !.removed = {},
                              !.unusedCount = Len(images) - Cardinality(used)]
               /\ screen' = IF Len(images) = Cardinality(used)
                            THEN "success" ELSE "results"
    /\ scanTick' = FALSE
    /\ delReport' = NoReport
    /\ scanProgress' = updateProgress(scanProgress, 100)
    /\ UNCHANGED <<error, selectedIds, selectAlls, deleting, deleteProgress, confirmState, del,
                   refDoc, refRead, switched, overlapVars,
                   gateVars, batchVars, backendVars>>

\* A row's checkbox: toggle(id)
Toggle ==
    /\ GateOk
    /\ ResultsShown
    /\ \E id \in AllUnusedIds(scanResult) :
         selectedIds' = IF id \in selectedIds THEN selectedIds \ {id}
                        ELSE selectedIds \cup {id}
    /\ selectAlls' = 0
    /\ UNCHANGED <<scanResult, screen, error, scanTick, deleteVars, sweepVars, scanProgress, overlapVars,
                   gateVars, batchVars, backendVars>>

\* A Select All button that only ever adds
toggleSelectAllUnused_OnlyAdds(prev, allUnusedIds) == prev \cup allUnusedIds

\* The updater of toggleSelectAllUnused: setSelectedIds((prev) => ...)
toggleSelectAllUnused(prev, allUnusedIds) ==
    IF allUnusedIds = {} THEN prev
    ELSE IF \A id \in allUnusedIds : id \in prev THEN {}
    ELSE allUnusedIds

\* The Select All / Unselect All button, shown while there are unused rows
ToggleSelectAllUnused ==
    /\ GateOk
    /\ ResultsShown
    /\ ~deleting
    /\ AllUnusedIds(scanResult) # {}
    /\ selectedIds' = toggleSelectAllUnused(selectedIds, AllUnusedIds(scanResult))
    /\ selectAlls' = IF selectedIds = {} THEN 1
                     ELSE IF selectAlls = 1 THEN 2
                     ELSE 0
    /\ UNCHANGED <<scanResult, screen, error, scanTick, deleteVars, sweepVars, scanProgress, overlapVars,
                   gateVars, batchVars, backendVars>>

\* The View Clean State button of an empty results list
ViewCleanState ==
    /\ GateOk
    /\ ResultsShown
    /\ AllUnusedIds(scanResult) = {}
    /\ screen' = "success"
    /\ UNCHANGED <<scanResult, error, selectedIds, selectAlls, scanTick, deleteVars, sweepVars, scanProgress, overlapVars,
                   gateVars, batchVars, backendVars>>

\* The Delete Selected button: requestDelete opens the dialog with the
\* performDelete of this render
RequestDelete ==
    /\ GateOk
    /\ ResultsShown
    /\ ~deleting
    /\ selectedIds # {}
    /\ confirmState' = [open |-> TRUE, selectedIds |-> selectedIds,
                        scanResult |-> scanResult]
    /\ UNCHANGED <<scanResult, screen, error, selectedIds, selectAlls, scanTick, deleting, deleteProgress, del,
                   delReport, sweepVars, scanProgress, overlapVars,
                   gateVars, batchVars, backendVars>>

\* The dialog's Cancel button or its backdrop: onClose. A closed dialog is not
\* rendered and requestDelete replaces what it holds, so what a closed dialog
\* holds is dropped.
CloseConfirm ==
    /\ GateOk
    /\ confirmState.open
    /\ confirmState' = NoConfirm
    /\ UNCHANGED <<scanResult, screen, error, selectedIds, selectAlls, scanTick, deleting, deleteProgress, del,
                   delReport, sweepVars, scanProgress, overlapVars,
                   gateVars, batchVars, backendVars>>

\* The dialog's Delete button, no performDelete call being in progress:
\* handleConfirm calls performDelete, which returns at once without a result or
\* without ids (the dialog closes), or runs up to its first host call
ConfirmDelete ==
    /\ GateOk
    /\ confirmState.open
    /\ del.pc = "idle"
    /\ IF confirmState.scanResult.none \/ confirmState.selectedIds = {}
       THEN /\ confirmState' = NoConfirm
            /\ UNCHANGED <<deleting, deleteProgress, error, del, delReport>>
       ELSE /\ deleting' = TRUE
            /\ deleteProgress' = [none |-> FALSE, done |-> 0,
                                  total |-> Cardinality(confirmState.selectedIds)]
            /\ error' = NoError
            /\ del' = [NoDelete EXCEPT !.pc = "loop",
                                       !.ids = confirmState.selectedIds,
                                       !.todo = confirmState.selectedIds,
                                       !.scanResult = confirmState.scanResult,
                                       !.listed = ListedIds(scanResult)]
            /\ delReport' = NoReport
            /\ UNCHANGED confirmState
    /\ UNCHANGED <<scanResult, screen, selectedIds, selectAlls, scanTick, sweepVars, scanProgress, overlapVars,
                   gateVars, batchVars, backendVars>>

\* How api.deleteAsset(siteId, id) ends: resolved (204), or rejected with a
\* status and a message that contains "scope" or "assets:write", or does not
DeleteAnswers ==
    {[status |-> 204, scopeMessage |-> FALSE]} \cup
    [status : {401, 403, 500}, scopeMessage : BOOLEAN]

\* What the host holds for one id when tryRemoveFromDesigner runs: whether
\* byId lists the id, how webflow.getAssetById ends, and how asset.remove and
\* webflow.removeAsset end ("absent": the host has no such function)
HostRemovals ==
    [inList : BOOLEAN,
     getAssetById : {"absent", "found", "null", "throws"},
     remove : {"absent", "ok", "throws"},
     removeAsset : {"absent", "ok", "throws"}]

\* The asset tryRemoveFromDesigner holds after its lookup
AssetFound(h) == h.inList \/ h.getAssetById = "found"

\* asset.remove() or webflow.removeAsset(asset) was called and resolved
RemovalSucceeded(h) ==
    AssetFound(h) /\ (h.remove = "ok" \/ h.removeAsset = "ok")

\* tryRemoveFromDesigner(assetMaybe, assetId)
tryRemoveFromDesigner(h) ==
    IF ~AssetFound(h) THEN TRUE
    ELSE IF h.remove = "ok" THEN TRUE
    ELSE IF h.removeAsset = "ok" THEN TRUE
    ELSE FALSE

\* How one round of the loop can end: the status and the message of
\* api.deleteAsset, what tryRemoveFromDesigner returns, and whether a removal
\* call on the host succeeded
RoundOutcomes ==
    {[status |-> answer.status, scopeMessage |-> answer.scopeMessage,
      designerOk |-> tryRemoveFromDesigner(h), removed |-> RemovalSucceeded(h)] :
        answer \in DeleteAnswers, h \in HostRemovals}

\* Array.from(selectedIds): the ids in the selection's iteration order, of
\* which the model follows one
RECURSIVE ArrayFrom(_)
ArrayFrom(ids) ==
    IF ids = {} THEN <<>>
    ELSE LET id == CHOOSE x \in ids : TRUE IN <<id>> \o ArrayFrom(ids \ {id})

\* A loop that a failed id ends
DeleteOne_StopsAtFailure ==
    /\ del.pc = "loop"
    /\ del.todo # {}
    /\ \E round \in RoundOutcomes :
         LET id == Head(ArrayFrom(del.todo))
             status == round.status
             ok == status = 204 \/ round.designerOk
         IN  del' = [del EXCEPT
                       !.todo = IF ok THEN @ \ {id} ELSE {},
                       !.deleted = IF ok THEN @ \cup {id} ELSE @,
                       !.failed = IF ok THEN @ ELSE @ \cup {id},
                       !.authFailed = @ \/ status = 401,
                       !.scopeFailed = @ \/ status = 403 \/ round.scopeMessage,
                       !.removed = IF status = 204 \/ round.removed
                                   THEN @ \cup {id} ELSE @,
                       !.tried = Append(@, id)]
    /\ deleteProgress' = [none |-> FALSE, done |-> Len(del.tried) + 1,
                          total |-> Cardinality(del.ids)]
    /\ UNCHANGED <<scanResult, screen, error, selectedIds, selectAlls, scanTick, deleting,
                   confirmState, delReport, sweepVars, scanProgress, overlapVars,
                   gateVars, batchVars, backendVars>>

\* One round of the loop for the next id: api.deleteAsset, then
\* tryRemoveFromDesigner
DeleteOne ==
    /\ del.pc = "loop"
    /\ del.todo # {}
    /\ \E round \in RoundOutcomes :
         LET id == Head(ArrayFrom(del.todo))
             status == round.status
             designerOk == round.designerOk
             ok == status = 204 \/ designerOk
         IN  del' = [del EXCEPT
                       !.todo = @ \ {id},
                       !.deleted = IF ok THEN @ \cup {id} ELSE @,
                       !.failed = IF ok THEN @ ELSE @ \cup {id},
                       !.authFailed = @ \/ status = 401,
                       !.scopeFailed = @ \/ status = 403 \/ round.scopeMessage,
                       !.removed = IF status = 204 \/ round.removed
                                   THEN @ \cup {id} ELSE @,
                       !.tried = Append(@, id)]
    /\ deleteProgress' = [none |-> FALSE, done |-> Len(del.tried) + 1,
                          total |-> Cardinality(del.ids)]
    /\ UNCHANGED <<scanResult, screen, error, selectedIds, selectAlls, scanTick, deleting,
                   confirmState, delReport, sweepVars, scanProgress, overlapVars,
                   gateVars, batchVars, backendVars>>

\* The locals of a runScan call when a performDelete call has removed the rows
\* of the ids deleted from the result prev
SweepAfterRemoval(sw, prev, deleted) ==
    IF InFlight(sw) THEN [sw EXCEPT !.removed = @ \cup (deleted \cap ListedIds(prev))]
    ELSE sw

\* setScanResult((prev) => ...) of performDelete
FilterDeleted(prev, deleted) ==
    IF prev.none THEN prev
    ELSE [none |-> FALSE, images |-> SelectSeq(prev.images, LAMBDA img : img.id \notin deleted),
          meta |-> [prev.meta EXCEPT
                      !.scannedAssets =
                          IF @ - Cardinality(deleted) < 0 THEN 0
                          ELSE @ - Cardinality(deleted)]]

\* An end of performDelete that leaves the selection
FinishDelete_KeepsSelection ==
    /\ del.pc = "loop"
    /\ del.todo = {}
    /\ scanResult' = FilterDeleted(scanResult, del.deleted)
    /\ UNCHANGED <<selectedIds, selectAlls>>
    /\ screen' = IF AllUnusedIds(del.scanResult) \ del.deleted = {}
                 THEN "success" ELSE "results"
    /\ error' = IF del.failed = {} THEN error
                ELSE IF del.authFailed THEN "delete_auth"
                ELSE IF del.scopeFailed THEN "delete_scope"
                ELSE "delete"
    /\ deleting' = FALSE
    /\ deleteProgress' = NoProgress
    /\ del' = NoDelete
    /\ confirmState' = NoConfirm
    /\ delReport' = [finished |-> TRUE, deleted |-> del.deleted,
                     failed |-> del.failed, listed |-> del.listed]
    /\ sweep' = SweepAfterRemoval(sweep, scanResult, del.deleted)
    /\ UNCHANGED <<scanTick, refDoc, refRead, switched, scanProgress, overlapVars,
                   gateVars, batchVars, backendVars>>

\* After the loop: the result is filtered, the selection emptied, the screen
\* chosen from the captured result, the failures reported; the dialog closes
FinishDelete ==
    /\ del.pc = "loop"
    /\ del.todo = {}
    /\ scanResult' = FilterDeleted(scanResult, del.deleted)
    /\ selectedIds' = {}
    /\ selectAlls' = 0
    /\ screen' = IF AllUnusedIds(del.scanResult) \ del.deleted = {}
                 THEN "success" ELSE "results"
    /\ error' = IF del.failed = {} THEN error
                ELSE IF del.authFailed THEN "delete_auth"
                ELSE IF del.scopeFailed THEN "delete_scope"
                ELSE "delete"
    /\ deleting' = FALSE
    /\ deleteProgress' = NoProgress
    /\ del' = NoDelete
    /\ confirmState' = NoConfirm
    /\ delReport' = [finished |-> TRUE, deleted |-> del.deleted,
                     failed |-> del.failed, listed |-> del.listed]
    /\ sweep' = SweepAfterRemoval(sweep, scanResult, del.deleted)
    /\ UNCHANGED <<scanTick, refDoc, refRead, switched, scanProgress, overlapVars,
                   gateVars, batchVars, backendVars>>

-----------------------------------------------------------------------------
(* Calls that overlap. reset leaves a runScan call in progress and the intro  *)
(* screen's Scan button is disabled only while deleting, so a runScan call   *)
(* can start while an earlier one is in progress; the dialog's Delete button *)
(* is never disabled, so it can start performDelete again while a call is in *)
(* progress. The earlier runScan calls and the performDelete calls are each  *)
(* taken to their end in one step.                                          *)

\* The earlier runScan calls and the performDelete calls followed
MaxOlderSweeps == 1
MaxDeleteRuns == 2

NoOlderSweeps == [running |-> 0, ended |-> 0]

\* A performDelete call that has ended
EndedRun == [ended |-> TRUE, ids |-> {}, unused |-> {}]

\* The positions of the performDelete calls in progress
RunningDeletes == {k \in 1..Len(deleteRuns) : ~deleteRuns[k].ended}

\* The Scan button or a Rescan button while a runScan call is in progress:
\* runScan up to its first host call; the call in progress goes on
ScanAgain ==
    /\ GateOk
    /\ InFlight(sweep)
    /\ olderSweeps.running + olderSweeps.ended < MaxOlderSweeps
    /\ ~deleting
    /\ \/ screen \in {"intro", "success"}
       \/ ResultsShown
    /\ sweep' = [NoSweep EXCEPT !.pc = "assets"]
    /\ olderSweeps' = [olderSweeps EXCEPT !.running = @ + 1]
    /\ error' = NoError
    /\ selectedIds' = {}
    /\ selectAlls' = 0
    /\ screen' = "scanning"
    /\ scanTick' = TRUE
    /\ scanProgress' = updateProgress(0, 10)
    /\ UNCHANGED <<scanResult, deleteVars, refDoc, refRead, switched, deleteRuns,
                   gateVars, batchVars, backendVars>>

\* An earlier runScan call from its pending host call to the stored result
OlderSweepToEnd ==
    /\ olderSweeps.running > 0
    /\ \E allAssets \in HostAssetLists, c \in SweepCounts :
         LET images == EnumerateImages(allAssets)
         IN  \E used \in SUBSET (1..Len(images)) :
               /\ used # {} => c.scannedPages + c.scannedStyles > 0
               /\ scanResult' = SweepResult(images, Len(allAssets), used, c)
               /\ screen' = IF Len(images) = Cardinality(used)
                            THEN "success" ELSE "results"
    /\ olderSweeps' = [running |-> olderSweeps.running - 1,
                       ended |-> olderSweeps.ended + 1]
    /\ scanTick' = FALSE
    /\ delReport' = NoReport
    /\ scanProgress' = updateProgress(scanProgress, 100)
    /\ UNCHANGED <<error, selectedIds, selectAlls, deleting, deleteProgress, confirmState, del,
                   sweepVars, deleteRuns, gateVars, batchVars, backendVars>>

\* A host call of an earlier runScan call throws: its catch block
OlderScanThrows ==
    /\ olderSweeps.running > 0
    /\ olderSweeps' = [running |-> olderSweeps.running - 1,
                       ended |-> olderSweeps.ended + 1]
    /\ scanTick' = FALSE
    /\ error' = "scan"
    /\ screen' = "intro"
    /\ scanProgress' = 0
    /\ UNCHANGED <<scanResult, selectedIds, selectAlls, deleteVars, sweepVars,
                   deleteRuns, gateVars, batchVars, backendVars>>

\* The dialog's Delete button, whether or not a performDelete call is in
\* progress: handleConfirm calls the performDelete the dialog holds, which
\* returns at once or runs up to its first host call
ConfirmDeleteRun ==
    /\ GateOk
    /\ confirmState.open
    /\ del.pc = "idle"
    /\ Len(deleteRuns) < MaxDeleteRuns
    /\ IF confirmState.scanResult.none \/ confirmState.selectedIds = {}
       THEN /\ confirmState' = NoConfirm
            /\ UNCHANGED <<deleting, deleteProgress, error, deleteRuns>>
       ELSE /\ deleting' = TRUE
            /\ deleteProgress' = [none |-> FALSE, done |-> 0,
                                  total |-> Cardinality(confirmState.selectedIds)]
            /\ error' = NoError
            /\ deleteRuns' = Append(deleteRuns,
                                    [ended |-> FALSE,
                                     ids |-> confirmState.selectedIds,
                                     unused |-> AllUnusedIds(confirmState.scanResult)])
            /\ UNCHANGED confirmState
    /\ UNCHANGED <<scanResult, screen, selectedIds, selectAlls, scanTick, del, delReport,
                   sweepVars, scanProgress, olderSweeps, gateVars, batchVars, backendVars>>

\* What a failed id leaves in the error message
DeleteErrors == {"delete_auth", "delete_scope", "delete"}

\* A performDelete call from its first round to its end: the ids of its
\* closure that it counts as deleted, and the message for the others. unused
\* holds the ids of the unused rows of the result its closure captured.
DeleteRunToEnd ==
    /\ \E k \in RunningDeletes :
         LET run == deleteRuns[k]
         IN  \E deleted \in SUBSET run.ids, message \in DeleteErrors :
               /\ scanResult' = FilterDeleted(scanResult, deleted)
               /\ screen' = IF run.unused \ deleted = {} THEN "success" ELSE "results"
               /\ error' = IF deleted = run.ids THEN error ELSE message
               /\ deleteRuns' = [deleteRuns EXCEPT ![k] = EndedRun]
               /\ sweep' = SweepAfterRemoval(sweep, scanResult, deleted)
    /\ delReport' = NoReport
    /\ selectedIds' = {}
    /\ selectAlls' = 0
    /\ deleting' = FALSE
    /\ deleteProgress' = NoProgress
    /\ confirmState' = NoConfirm
    /\ UNCHANGED <<scanTick, del, refDoc, refRead, switched, scanProgress, olderSweeps,
                   gateVars, batchVars, backendVars>>

\* A tick of the interval timer of runScan
ScanTick ==
    /\ scanTick
    /\ scanProgress' = IF scanProgress >= 92 THEN scanProgress ELSE scanProgress + 1
    /\ UNCHANGED <<uiVars, sweepVars, overlapVars, gateVars, batchVars, backendVars>>

\* The state of the extension before the first scan
InitFrontend ==
    /\ sweep = NoSweep
    /\ scanResult = NoResult
    /\ screen = "intro"
    /\ error = NoError
    /\ selectedIds = {}
    /\ selectAlls = 0
    /\ scanTick = FALSE
    /\ refDoc = {}
    /\ refRead = {}
    /\ switched = 0
    /\ deleting = FALSE
    /\ deleteProgress = NoProgress
    /\ confirmState = NoConfirm
    /\ del = NoDelete
    /\ delReport = NoReport
    /\ scanProgress = 0
    /\ olderSweeps = NoOlderSweeps
    /\ deleteRuns = <<>>
    /\ authGate = LoadingGate
    /\ refreshing = 1
    /\ styleLoop = NoStyleLoop
    /\ progressRun = NoProgressRun

-----------------------------------------------------------------------------
(* The backend's specification *)

InitBackend ==
    /\ session = EmptySession
    /\ resp = NoResp
    /\ clock = 0
    /\ nCallbacks = 0
    /\ loggedOut = "no"
    /\ resolved = -1
    /\ scopesEnv = Undef

\* A new session, and the extension before its first scan
Init == InitBackend /\ InitFrontend

NextBackend ==
    \/ CallbackNoExchange
    \/ CallbackExchangeFails
    \/ CallbackOk
    \/ Tick
    \/ AuthStatus
    \/ AuthStatusTs
    \/ Sites
    \/ DeleteAsset
    \/ Logout
    \/ SendResponse

SpecBackend == Init /\ [][NextBackend]_vars

-----------------------------------------------------------------------------
(* The OAuth routes' specification: the GET /auth requests and the logouts of *)
(* one session, and the last callback the model follows                       *)

InitAuth ==
    /\ session = EmptySession
    /\ resp = NoResp
    /\ clock = 0
    /\ nCallbacks = MaxCallbacks - 1
    /\ loggedOut = "no"
    /\ resolved = -1
    /\ scopesEnv = Undef
    /\ InitFrontend

NextAuth ==
    \/ GetAuth
    \/ CallbackNoExchange
    \/ CallbackExchangeFails
    \/ CallbackOk
    \/ Logout
    \/ SendResponse

SpecAuth == InitAuth /\ [][NextAuth]_vars

-----------------------------------------------------------------------------
(* The authorize URL's specification: GET /auth and the logout of one session *)
(* of a deployment, under each value of WEBFLOW_SCOPES                         *)

InitScopes ==
    /\ session = EmptySession
    /\ resp = NoResp
    /\ clock = 0
    /\ nCallbacks = 0
    /\ loggedOut = "no"
    /\ resolved = -1
    /\ scopesEnv \in ProvidedScopes
    /\ InitFrontend

NextScopes ==
    \/ GetAuth
    \/ Logout
    \/ SendResponse

SpecScopes == InitScopes /\ [][NextScopes]_vars

-----------------------------------------------------------------------------
(* The sweep's specification: one runScan call at a time, to its end *)

NextSweep ==
    \/ RefreshAuthEnds
    \/ RunScan
    \/ ScanThrows
    \/ GetAllAssets
    \/ GetAllPagesAndFolders
    \/ SwitchPage
    \/ SwitchPageFails
    \/ GetAllElements
    \/ ElementAsset
    \/ ElementStyles
    \/ ElementStylesProps
    \/ ElementStyle
    \/ ElementBackground
    \/ PageOpenGraph
    \/ PageSearch
    \/ GetAllStyles
    \/ StyleBatch
    \/ FinishScan

SpecSweep == Init /\ [][NextSweep]_vars

-----------------------------------------------------------------------------
(* The extension's specification: the screens and the delete pipeline, one   *)
(* runScan call and one performDelete call at a time, each sweep in one step *)

NextUi ==
    \/ RefreshAuthEnds
    \/ RunScan
    \/ Rescan
    \/ ScanThrows
    \/ SweepToEnd
    \/ Reset
    \/ Toggle
    \/ ToggleSelectAllUnused
    \/ ViewCleanState
    \/ RequestDelete
    \/ CloseConfirm
    \/ ConfirmDelete
    \/ DeleteOne
    \/ FinishDelete

SpecUi == Init /\ [][NextUi]_vars

\* The extension where every call a performDelete call awaits settles and the
\* call is resumed: a round of the loop that can be taken is taken, and so is
\* the end of the call
SpecUiLive == SpecUi /\ WF_vars(DeleteOne) /\ WF_vars(FinishDelete)

-----------------------------------------------------------------------------
(* The scan screens' specification: the runScan calls the Scan, Rescan, Back *)
(* and Cancel buttons let start, overlapping ones included, and the ticks of *)
(* the progress timer                                                        *)

NextScans ==
    \/ RefreshAuthEnds
    \/ RunScan
    \/ Rescan
    \/ ScanAgain
    \/ ScanThrows
    \/ SweepToEnd
    \/ OlderSweepToEnd
    \/ OlderScanThrows
    \/ Reset
    \/ ScanTick

SpecScans == Init /\ [][NextScans]_vars

-----------------------------------------------------------------------------
(* The specification of the performDelete calls the dialog lets start,       *)
(* overlapping ones included, with one runScan call at a time                *)

NextDeletes ==
    \/ RefreshAuthEnds
    \/ RunScan
    \/ Rescan
    \/ SweepToEnd
    \/ Reset
    \/ Toggle
    \/ RequestDelete
    \/ CloseConfirm
    \/ ConfirmDeleteRun
    \/ DeleteRunToEnd

SpecDeletes == Init /\ [][NextDeletes]_vars

-----------------------------------------------------------------------------
(* The gate's specification: the refreshAuth calls of the mount and of the   *)
(* gate screen's buttons, overlapping ones included, with the scans and the  *)
(* performDelete calls the screens let start; the performDelete calls are    *)
(* followed to their first host call                                         *)

NextGate ==
    \/ RefreshAuthEnds
    \/ Refresh
    \/ RunScan
    \/ ScanThrows
    \/ SweepToEnd
    \/ ToggleSelectAllUnused
    \/ RequestDelete
    \/ CloseConfirm
    \/ ConfirmDeleteRun

SpecGate == Init /\ [][NextGate]_vars

-----------------------------------------------------------------------------
(* The style pass's specification: the BATCH loop over a list of up to      *)
(* MaxFetchStyles styles, with the fetches settling in any order             *)

NextBatches ==
    \/ StylePassStarts
    \/ StartBatch
    \/ FetchSettles
    \/ BatchDone

SpecBatches == Init /\ [][NextBatches]_vars

-----------------------------------------------------------------------------
(* The scan progress's specification: one runScan call at a time with the     *)
(* timer's ticks and reset between its steps                                 *)

NextProgress ==
    \/ ProgressRunScan
    \/ ProgressTick
    \/ ProgressSized
    \/ ProgressAssets
    \/ ProgressPagesListed
    \/ ProgressSwitchPageFails
    \/ ProgressPageDone
    \/ ProgressStylesListed
    \/ ProgressBatch
    \/ ProgressFinish
    \/ ProgressThrows
    \/ ProgressReset

SpecProgress == Init /\ [][NextProgress]_vars

-----------------------------------------------------------------------------
(* Claims about the session endpoints, checked under SpecBackend *)

\* The token of the requested site's own entry, blank when it carries none
OwnToken(s, siteId) == Trim(StringOr(EntryAccessToken(s.authorizedSites, siteId)))

\* C2 (as claimed): a DELETE for a site id that has no entry in the session's
\* authorized-site map is answered 403, whatever the session holds.
C2_Original ==
    (resp.route = "delete" /\ resp.siteId \notin DOMAIN session.authorizedSites)
        => resp.status = 403

\* C3 (as claimed): the handler goes on to the external delete call only for a
\* site id that has an entry in the site map and with that entry's token; when the
\* entry carries no token the request is answered 401 and no call is made.
C3_Original ==
    resp.route = "delete" =>
        /\ resp.token # Undef =>
              /\ resp.siteId \in DOMAIN session.authorizedSites
              /\ resp.token = OwnToken(session, resp.siteId)
        /\ (resp.siteId \in DOMAIN session.authorizedSites
              /\ OwnToken(session, resp.siteId) = <<>>)
              => (resp.status = 401 /\ resp.token = Undef /\ ~resp.extCall)

\* C4 (as claimed): a DELETE for a site id that is in the site map with a
\* non-empty token is answered 204 unless the external call fails (no upstream
\* failure occurs in the model: the handler never gets as far as the upstream).
C4_Original ==
    (/\ resp.route = "delete"
     /\ resp.assetId # <<>>
     /\ resp.siteId \in DOMAIN session.authorizedSites
     /\ OwnToken(session, resp.siteId) # <<>>)
        => resp.status = 204

\* C5 (as claimed): after a callback whose exchange yielded a token, the status
\* endpoint reports authenticated:true when the callback resolved at least one
\* site id, and authenticated:false when it resolved none.
C5_Original ==
    (/\ resp.route \in {"status", "status_ts"}
     /\ resolved >= 0
     /\ Truthy(session.accessToken))
        => (resp.authenticated <=> resolved >= 1)

\* C6 (as claimed): the authenticated flag, of the compiled server and of the
\* TypeScript source, is true exactly when some entry of the site map carries a
\* non-empty access token.
C6_Original ==
    resp.route \in {"status", "status_ts"} =>
        (resp.authenticated <=>
            \E id \in DOMAIN session.authorizedSites :
                session.authorizedSites[id].accessToken \notin {Undef, <<>>})

\* C7: after POST /api/logout, until a callback exchanges a token again, every
\* status request reports authenticated:false with no site ids, and every
\* GET /api/sites and every asset DELETE is answered 401.
C7_AfterLogout ==
    loggedOut # "no" =>
        /\ resp.route \in {"status", "status_ts"} =>
              (~resp.authenticated /\ resp.siteIds = {})
        /\ resp.route \in {"sites", "delete"} => resp.status = 401

\* C7's case: the destroyed session was authorized, and a later DELETE got 401
C7_Witness ==
    /\ loggedOut = "authorized"
    /\ resp.route = "delete"
    /\ resp.status = 401
    /\ resp.siteId = S1

-----------------------------------------------------------------------------
(* Claims about the sweep, checked under SpecSweep *)

\* The rows of the result that the finished runScan call stored
DoneRows == IF sweep.pc = "done" THEN scanResult.images ELSE <<>>

\* C8 (as claimed): a completed sweep marks an image unused if no element, style
\* or social-preview image field of the document references it, and used if at
\* least one such field references it by its id or its URL.
C8_Original ==
    \A k \in 1..Len(DoneRows) :
        DoneRows[k].isUnused <=> DoneRows[k].id \notin refDoc

\* C8 (amended): a completed sweep marks an image used exactly when a field that
\* the sweep could read matched it (an element's asset binding or background
\* image with its id, a 24-hex-digit token of a serialized style payload equal
\* to its id, a URL token of a payload or a social-preview URL of a page it
\* switched to equal to its URL, no later image having that URL), and unused
\* otherwise; an image it marks used is referenced by the document.
C8_MarksWhatItReads ==
    \A k \in 1..Len(DoneRows) :
        /\ DoneRows[k].isUnused <=> DoneRows[k].id \notin refRead
        /\ ~DoneRows[k].isUnused => DoneRows[k].id \in refDoc

\* C8's case: a completed sweep with an image marked used and an image marked
\* unused that a field of the document references
C8_Witness ==
    /\ \E k \in 1..Len(DoneRows) : ~DoneRows[k].isUnused
    /\ \E k \in 1..Len(DoneRows) : DoneRows[k].isUnused /\ DoneRows[k].id \in refDoc

\* C10: at the end of a sweep detectedReferences is the number of distinct images
\* marked used, unusedCount the number of images never marked and scannedPages
\* the number of pages switched to; for 2 pages and 3 images of which exactly 2
\* are referenced (by fields the sweep matched) the result is unusedCount 1,
\* scannedPages 2, detectedReferences 2.
C10_Counters ==
    sweep.pc = "done" =>
        /\ scanResult.meta.detectedReferences = Cardinality(refRead)
        /\ sweep.unusedCount
              = Cardinality({k \in 1..Len(DoneRows) : DoneRows[k].id \notin refRead})
        /\ scanResult.meta.scannedPages = switched
        /\ (/\ sweep.totalPages = 2
            /\ switched = 2
            /\ Len(DoneRows) = 3
            /\ Cardinality(refDoc) = 2
            /\ refRead = refDoc)
              => /\ sweep.unusedCount = 1
                 /\ scanResult.meta.scannedPages = 2
                 /\ scanResult.meta.detectedReferences = 2

\* C10's case: 2 pages, images A, B and C, A and B matched, C never
C10_Witness ==
    /\ sweep.pc = "done"
    /\ sweep.totalPages = 2
    /\ scanResult.meta.scannedPages = 2
    /\ Len(scanResult.images) = 3
    /\ refRead = {IdA, IdB}
    /\ refDoc = refRead
    /\ sweep.unusedCount = 1
    /\ scanResult.meta.detectedReferences = 2

-----------------------------------------------------------------------------
(* Claims about the results list and the delete pipeline, checked under SpecUi *)

\* C1 (as claimed): after a performDelete call has finished, no row of the scan
\* result has an id the call counted as deleted, and every id it counted as
\* failed that was listed when it started is still listed.
C1_Original ==
    delReport.finished =>
        /\ ListedIds(scanResult) \cap delReport.deleted = {}
        /\ (delReport.failed \cap delReport.listed) \subseteq ListedIds(scanResult)

\* The ids of the host's assets whose MIME type does not start with "image/"
\* or cannot be read
NonImageIds ==
    {a.id : a \in {h \in HostAssets : ~(h.mimeOk /\ StartsWith(h.mime, ImagePrefix))}}

\* C9: every row of a scan result has a MIME type that starts with "image/"; an
\* asset of another MIME type, or whose MIME type cannot be read, is in no
\* result, in no selection and among the ids of no performDelete call.
C9_OnlyImages ==
    /\ \A k \in 1..Len(scanResult.images) :
          StartsWith(scanResult.images[k].mimeType, ImagePrefix)
    /\ NonImageIds \cap (ListedIds(scanResult) \cup selectedIds
                          \cup confirmState.selectedIds
                          \cup del.ids \cup del.deleted \cup del.failed) = {}

\* C9's case: the host listed a video, an image and an asset of unreadable MIME
\* type; the image alone is a row, was selected and has been through the loop
C9_Witness ==
    /\ scanResult.meta.scannedAssets = 3
    /\ ListedIds(scanResult) = {IdA}
    /\ del.pc = "loop"
    /\ del.deleted = {IdA}


\* The ids of a sequence
Range(seq) == {seq[k] : k \in 1..Len(seq)}

\* C11 (as claimed): in the delete loop an id is counted as deleted exactly
\* when its backend call succeeded or a removal call on the host succeeded for
\* it, and every other id the loop has taken is counted as failed.
C11_Original ==
    /\ del.deleted = del.removed
    /\ del.failed = Range(del.tried) \ del.removed

\* C12: the delete loop takes the ids of the selection in order, each once,
\* whatever the earlier ids' outcomes; deleted and failed are disjoint and hold
\* the ids taken so far, so at the end of the loop they hold the selection.
C12_EveryIdOnce ==
    /\ del.tried = SubSeq(ArrayFrom(del.ids), 1, Len(del.tried))
    /\ del.todo = del.ids \ Range(del.tried)
    /\ del.deleted \cap del.failed = {}
    /\ del.deleted \cup del.failed = Range(del.tried)
    /\ del.pc = "loop" /\ del.todo = {} => del.deleted \cup del.failed = del.ids

\* C12's case: the loop is at its end, its first id failed with a backend
\* error and a removal error, and a later id was taken and deleted
C12_Witness ==
    /\ del.pc = "loop"
    /\ del.todo = {}
    /\ Len(del.tried) >= 2
    /\ del.tried[1] \in del.failed
    /\ del.tried[2] \in del.deleted
    /\ del.authFailed


\* C13: on the results screen, a toggleSelectAllUnused on an empty selection
\* makes the selection the set of the ids of all unused rows, which is not
\* empty, and a second one in a row makes the selection empty again.
C13_SelectAllTwice ==
    /\ selectAlls = 1 =>
          selectedIds = AllUnusedIds(scanResult) /\ selectedIds # {}
    /\ selectAlls = 2 => selectedIds = {}

\* C13's case: two toggleSelectAllUnused in a row from an empty selection,
\* the results screen listing two unused rows or more
C13_Witness ==
    /\ selectAlls = 2
    /\ screen = "results"
    /\ Cardinality(AllUnusedIds(scanResult)) >= 2

\* C15 (as claimed): a GET /api/auth/status request of the compiled server
\* leaves the session as it was.
C15_Original ==
    [][(resp.route = "none" /\ resp'.route = "status") => session' = session]_vars

\* C16 (as claimed): the sites of a GET /api/sites answer are ordered by
\* display name (by id where a site has no name), and of two sites with equal
\* display names the one with the lower id comes first.
C16_Original ==
    resp.route = "sites" /\ resp.status = 200 =>
        \A i, j \in 1..Len(resp.sites) :
            i < j =>
              /\ LocaleCompare(SortKey(resp.sites[i]), SortKey(resp.sites[j])) <= 0
              /\ resp.sites[i].displayName = resp.sites[j].displayName =>
                    LocaleCompare(resp.sites[i].id, resp.sites[j].id) < 0

\* What C17 says of the entries a successful callback upserted, newToken(old)
\* being the token an entry that was in the map is to hold: such an entry
\* keeps its firstSeenAt and has the callback's time as lastSeenAt; an entry
\* that was not in the map is there and holds the exchanged token.
Upserted(newToken(_)) ==
    resp.route = "callback" /\ resp.exchanged =>
        \A id \in resp.upserted.ids :
            /\ id \in DOMAIN session.authorizedSites
            /\ id \in DOMAIN resp.upserted.before =>
                  LET entry == session.authorizedSites[id]
                      before == resp.upserted.before[id]
                  IN  /\ entry.firstSeenAt = before.firstSeenAt
                      /\ entry.lastSeenAt = resp.upserted.now
                      /\ entry.accessToken = newToken(before.accessToken)
            /\ id \notin DOMAIN resp.upserted.before =>
                  session.authorizedSites[id].accessToken = session.accessToken

\* The token of the exchange, whatever the entry held
ExchangedToken(old) == session.accessToken

\* The token of the exchange when the token endpoint's answer carried one,
\* else the token the entry held
ExchangedTokenOr(old) == Nullish(session.accessToken, old)

\* C17 (as claimed): after a successful callback, the entry of a resolved site
\* id that was in the map has its firstSeenAt, the callback's time as
\* lastSeenAt and the exchanged token; a new one has the exchanged token.
C17_Original == Upserted(ExchangedToken)

\* C17 (amended): as claimed, but an entry that was in the map takes the
\* exchanged token only when the token endpoint's answer carried one, and keeps
\* its token otherwise.
C17_KeepsTokenWithoutNew == Upserted(ExchangedTokenOr)

\* C17's case: a second callback of the session, later than the first, has
\* exchanged another token and resolved the site the first had stored
C17_Witness ==
    /\ resp.route = "callback"
    /\ resp.exchanged
    /\ S1 \in DOMAIN resp.upserted.before
    /\ resp.upserted.before[S1].accessToken = T1
    /\ nCallbacks = 2
    /\ S1 \in DOMAIN session.authorizedSites
    /\ session.authorizedSites[S1].firstSeenAt = 0
    /\ session.authorizedSites[S1].lastSeenAt = 1
    /\ session.authorizedSites[S1].accessToken = T2
    /\ session.accessToken = T2

\* C18 (as claimed): after a successful callback whose introspection gave no
\* site ids, the map has an entry for every site id the site-list call
\* returned, with or without a display name.
C18_Original ==
    resp.route = "callback" /\ resp.exchanged =>
        resp.upserted.fallback \subseteq DOMAIN session.authorizedSites

\* C19: a callback whose code exchange the token endpoint answered with a
\* non-success status ends without a redirect, with the upstream status as
\* HTTP status, and with the upstream's message, code and details in the body.
C19_UpstreamError ==
    resp.route = "callback" /\ resp.upstream.status # 0 =>
        /\ resp.location = Undef
        /\ resp.status = resp.upstream.status
        /\ Truthy(resp.upstream.data.message) =>
              resp.body.message = resp.upstream.data.message
        /\ resp.body.code = resp.upstream.data.code
        /\ resp.body.details = resp.upstream.data.details

\* C19's case: the token endpoint answered 401 with a message, a code and
\* details, in a session an earlier callback had authorized
C19_Witness ==
    /\ resp.route = "callback"
    /\ resp.upstream.status = 401
    /\ resp.upstream.data.details = <<"d">>
    /\ resp.body.message = <<"m">>
    /\ hasAnyAuthorization(session)

-----------------------------------------------------------------------------
(* Claims about the OAuth routes, checked under SpecAuth *)

\* The scopes of a scope string, in order
ScopesOf(scope) == ScopeList(StringOr(scope))

\* C14 (as claimed): the scope of the authorize URL GET /auth redirects to
\* lists the required scopes first, in their order, then the scopes of
\* WEBFLOW_SCOPES, space-joined, every scope once; and merging "a,b" with "b,c"
\* gives "a b c".
C14_Original ==
    /\ resp.route = "auth" /\ resp.status = 302 =>
          LET out == ScopesOf(resp.scope)
              req == ScopeList(REQUIRED_SCOPES)
          IN  /\ resp.scope = JoinSpace(out)
              /\ SubSeq(out, 1, Len(req)) = req
              /\ Range(out) = Range(req) \cup Range(ScopesOf(scopesEnv))
              /\ \A i, j \in 1..Len(out) : out[i] = out[j] => i = j
    /\ mergeScopes(<<"a", ",", "b">>, <<"b", ",", "c">>) = <<"a", " ", "b", " ", "c">>

\* s.endsWith(p)
EndsWith(s, p) == Len(s) >= Len(p) /\ SubSeq(s, Len(s) - Len(p) + 1, Len(s)) = p

\* The browser that follows u arrives at the dashboard domain or the extension
\* domain over https, or at this machine over http
TrustedTarget(u) ==
    LET url == ParseUrl(u)
    IN  /\ url.ok
        /\ \/ /\ url.scheme = HttpsScheme
              /\ \/ url.host = WebflowCom
                 \/ EndsWith(url.host, <<".">> \o WebflowCom)
                 \/ EndsWith(url.host, <<".">> \o WebflowExtCom)
           \/ /\ url.scheme = HttpScheme
              /\ url.host \in {Localhost, Loopback}

\* C20: every redirect of GET /auth/callback targets the default dashboard
\* URL, or a URL that sanitizeRedirect gives back and that leads to the
\* dashboard domain, the extension domain or localhost, whatever the earlier
\* GET /auth requests of the session carried.
C20_TrustedRedirect ==
    resp.route = "callback" /\ resp.status = 302 =>
        \/ resp.location = DefaultRedirect
        \/ /\ sanitizeRedirect(resp.location) = resp.location
           /\ TrustedTarget(resp.location)

\* C20's case: a callback that exchanged a token redirects to the loopback
\* URL a GET /auth had stored, the port it implied left out
C20_Witness ==
    /\ resp.route = "callback"
    /\ resp.exchanged
    /\ resp.location = <<"h", "t", "t", "p", ":", "/", "/">> \o Loopback \o <<"/">>
    /\ resp.location # UrlLoopback
    /\ loggedOut = "no"

-----------------------------------------------------------------------------
(* Claims about calls that overlap, about the scan screens and about the     *)
(* sweep's errors                                                            *)

\* C21 (as claimed): the selection holds only ids the scan result held marks
\* unused, and so do the ids a performDelete call has still to take.
C21_Original ==
    /\ selectedIds \subseteq AllUnusedIds(scanResult)
    /\ del.todo \subseteq AllUnusedIds(scanResult)


\* The runScan calls in progress
SweepsInFlight == (IF InFlight(sweep) THEN 1 ELSE 0) + olderSweeps.running

\* C22 (as claimed): at most one runScan call is in progress, whatever the
\* buttons pressed.
C22_Original == SweepsInFlight <= 1


\* The performDelete calls in progress
DeletesInFlight == (IF del.pc = "idle" THEN 0 ELSE 1) + Cardinality(RunningDeletes)

\* C23 (as claimed): at most one performDelete call is in progress, whatever
\* the buttons pressed, the dialog's Delete button pressed again included.
C23_Original == DeletesInFlight <= 1


\* C24 (as claimed): when reset has left the scanning screen while a runScan
\* call was in progress, the end of that call changes neither the screen, nor
\* the scan result, nor the error message.
C24_Original ==
    [][sweep.abandoned /\ ~InFlight(sweep')
          => screen' = screen /\ scanResult' = scanResult /\ error' = error]_vars


\* C25 (as claimed): once reset has left the scanning screen, no tick of the
\* progress timer changes the scan progress until a runScan call starts.
\* (abandoned holds from that reset until the next runScan call starts or the
\* call in progress ends; a tick is a step that leaves all but the progress.)
C25_Original ==
    [][sweep.abandoned /\ UNCHANGED <<uiVars, sweepVars, overlapVars>>
          => scanProgress' = scanProgress]_vars


\* C26 (as claimed): a runScan call that was in progress when a performDelete
\* call removed an id from the scan result does not list that id when it ends.
C26_Original ==
    [][InFlight(sweep) /\ ~InFlight(sweep')
          => ListedIds(scanResult') \cap sweep.removed = {}]_vars


\* Where runScan awaits a host call for one page, one element or one style:
\* the page switch, the element enumeration, the asset lookup, the style and
\* property fetches, the social-image fetches, the global style enumeration
\* and the style batches
PerItemCalls ==
    {"switch", "elements", "el_asset", "el_styles", "el_styles_props", "el_style",
     "el_bg", "og", "search", "styles", "batch"}

\* C27 (as claimed): no host call for one page, one element or one style ends
\* the sweep in its catch block, back on the intro screen with an error.
C27_Original ==
    [][sweep.pc \in PerItemCalls => ~(sweep'.pc = "idle" /\ error' = "scan")]_vars


\* C28: a sweep marks an image used only when a field it read during that
\* sweep matched the image's id or URL: at every point of a runScan call the
\* images marked so far were matched by fields read so far, and a row of the
\* stored result that is not unused was matched and is referenced by the
\* document. A call that throws adds no match, so it marks nothing.
C28_UsedOnlyOnMatch ==
    /\ \A k \in 1..Len(sweep.images) :
          sweep.images[k].used => sweep.images[k].id \in refRead
    /\ \A k \in 1..Len(DoneRows) :
          ~DoneRows[k].isUnused => DoneRows[k].id \in refRead \cap refDoc

\* C28's case: a completed sweep with a row marked used, a page switch that
\* failed and an image the document references that no field read matched
C28_Witness ==
    /\ sweep.pc = "done"
    /\ \E k \in 1..Len(DoneRows) : ~DoneRows[k].isUnused
    /\ switched < sweep.totalPages
    /\ refDoc \ refRead # {}


C30_Original ==
    [][/\ SweepsInFlight' > SweepsInFlight => screen' = "scanning"
       /\ screen = "scanning" /\ screen' # "scanning" =>
            \/ /\ SweepsInFlight' < SweepsInFlight
               /\ ~scanResult'.none
               /\ screen' = IF AllUnusedIds(scanResult') = {} THEN "success"
                            ELSE "results"
            \/ /\ SweepsInFlight' < SweepsInFlight
               /\ screen' = "intro"
               /\ error' = "scan"
               /\ scanProgress' = 0
               /\ scanResult' = scanResult
            \/ /\ SweepsInFlight' = SweepsInFlight
               /\ screen' = "intro"
               /\ scanResult'.none
               /\ error' = NoError
               /\ scanProgress' = 0]_vars


-----------------------------------------------------------------------------
(* Claims about the end of a delete run, the authorization gate, the site    *)
(* map, the style batches and the progress shown                             *)

\* C31 (as claimed): when a performDelete call ends, the screen becomes success
\* exactly when the scan result then held has no unused image, and results
\* otherwise; a call that counted an id as failed ends on results.
C31_Original ==
    [][del.pc = "loop" /\ del'.pc = "idle" =>
          /\ screen' = (IF AllUnusedIds(scanResult') = {} THEN "success"
                        ELSE "results")
          /\ (del.failed # {} => screen' = "results")]_vars


\* C32 (as claimed): when a performDelete call ends, an error message is shown
\* exactly when the call counted an id as failed: with the authentication hint
\* when a backend delete answered 401, otherwise with the permission hint when
\* one answered 403 or with a message about scopes, otherwise without a hint;
\* a call that counted no id as failed leaves the error message empty. Of a
\* call taken to its end in one step, the one whose ids were all listed and
\* are listed no more counted no id as failed.
C32_Original ==
    [][/\ (del.pc = "loop" /\ del'.pc = "idle") =>
             error' = (IF del.failed = {} THEN NoError
                       ELSE IF del.authFailed THEN "delete_auth"
                       ELSE IF del.scopeFailed THEN "delete_scope"
                       ELSE "delete")
       /\ \A k \in RunningDeletes :
             (/\ deleteRuns'[k].ended
              /\ deleteRuns[k].ids \subseteq ListedIds(scanResult)
              /\ deleteRuns[k].ids \cap ListedIds(scanResult') = {})
             => error' = NoError]_vars


\* The gate's site id is not empty and is the id of one of its authorized sites
SiteListed(gate) ==
    /\ gate.siteId # <<>>
    /\ \E k \in 1..Len(gate.authorizedSites) : gate.authorizedSites[k] = gate.siteId

\* A gate agrees with what the refreshAuth call that set it read
GateAsRead(gate) ==
    /\ gate.status = "ok" =>
          /\ gate.read.apiBase
          /\ gate.read.auth = "yes"
          /\ gate.read.sites = "listed"
          /\ SiteListed(gate)
    /\ gate.read.auth \in {"failed", "no"} => gate.status = "needs_auth"
    /\ (gate.read.sites = "listed" /\ ~SiteListed(gate)) => gate.status = "needs_site"

\* C33: a runScan call, a performDelete call, the confirm dialog and a change
\* of the selection start only while the gate is ok; and refreshAuth sets the
\* gate to ok only when an API base is configured, the backend answered
\* authenticated: true and the site id is not empty and among the sites
\* /api/sites returned; a failed or negative status check gives needs_auth, a
\* site that is not listed gives needs_site.
C33_GateOk ==
    [][/\ GateAsRead(authGate')
       /\ (\/ SweepsInFlight' > SweepsInFlight
           \/ DeletesInFlight' > DeletesInFlight
           \/ (confirmState'.open /\ ~confirmState.open)
           \/ selectedIds' \ selectedIds # {})
          => GateOk]_vars

\* C33's case: a refreshAuth call started from the gate screen has replaced
\* the ok gate that let a scan and a performDelete call start, and the call
\* is still in progress
C33_Witness ==
    /\ authGate.status \in {"needs_auth", "needs_site"}
    /\ ~scanResult.none
    /\ RunningDeletes # {}


\* The entry of id in the site map holds a token that is not blank
HasToken(map, id) == Trim(StringOr(map[id].accessToken)) # <<>>

\* C34 (as claimed): whatever request of the session is answered, POST
\* /api/logout apart, every site id of the site map stays in it and an entry
\* that holds a token still holds one.
C34_Original ==
    [][(Idle /\ resp'.route # "logout") =>
          /\ DOMAIN session.authorizedSites \subseteq DOMAIN session'.authorizedSites
          /\ \A id \in DOMAIN session.authorizedSites :
                HasToken(session.authorizedSites, id)
                    => HasToken(session'.authorizedSites, id)]_vars


\* C35: a callback that carries an OAuth error or no code, or whose token
\* exchange fails, leaves the session's access token, scopes and site map as
\* they were before it.
C35_FailedCallbackKeepsSession ==
    [][(Idle /\ resp'.route = "callback" /\ ~resp'.exchanged) =>
          /\ session'.accessToken = session.accessToken
          /\ session'.scopes = session.scopes
          /\ session'.sitesDefined = session.sitesDefined
          /\ session'.authorizedSites = session.authorizedSites
          /\ session'.siteOrder = session.siteOrder]_vars

\* C35's case: the token endpoint has refused the code of a callback of a
\* session that holds a token and an authorized site
C35_Witness ==
    /\ resp.route = "callback"
    /\ ~resp.exchanged
    /\ resp.upstream.status = 401
    /\ session.accessToken = T1
    /\ S1 \in DOMAIN session.authorizedSites
    /\ session.authorizedSites[S1].accessToken = T1


\* The sum of a sequence of numbers
RECURSIVE SumOf(_)
SumOf(seq) == IF seq = <<>> THEN 0 ELSE Head(seq) + SumOf(Tail(seq))

\* C36: in the style pass at most 40 getProperties() fetches are in flight, no
\* fetch of a batch starts before every fetch of the batches before it has
\* settled, and every style is fetched once: never twice, and once each when
\* the loop has ended.
C36_Batches ==
    [][/\ SumOf(styleLoop'.unsettled) <= 40
       /\ (styleLoop'.fetches # styleLoop.fetches /\ styleLoop.pc # "off") =>
             \A k \in 1..Len(styleLoop.unsettled) : styleLoop.unsettled[k] = 0
       /\ \A k \in 1..styleLoop'.n : styleLoop'.fetches[k] <= 1
       /\ styleLoop'.pc = "done" =>
             \A k \in 1..styleLoop'.n : styleLoop'.fetches[k] = 1]_vars

\* C36's case: a list of more than two full batches has been fetched to its end
C36_Witness ==
    /\ styleLoop.pc = "done"
    /\ styleLoop.n > 2 * BATCH
    /\ Len(styleLoop.unsettled) = 3


C38_Progress ==
    [][/\ progressRun'.progress \in 0..100
       /\ (progressRun.scanning /\ progressRun'.scanning) =>
             progressRun'.progress >= progressRun.progress
       /\ progressRun' = [progressRun EXCEPT !.progress = @ + 1] =>
             progressRun'.progress <= 92
       /\ progressRun'.pct # -1 => progressRun'.pct \in 28..78
       /\ progressRun'.totalPages = 0 => progressRun'.pct = -1]_vars

\* C38's case: the first of three pages has contributed its percentage and
\* the timer has raised the progress to its cap
C38_Witness ==
    /\ progressRun.scanning
    /\ progressRun.pc = "page"
    /\ progressRun.totalPages = 3
    /\ progressRun.pct = 45
    /\ progressRun.progress = 92


\* C39 (as claimed): every entry of the session's site map has
\* firstSeenAt <= lastSeenAt, after any sequence of callbacks and with the clock
\* advancing between any two reads of the current time.
C39_Original ==
    \A id \in DOMAIN session.authorizedSites :
        session.authorizedSites[id].firstSeenAt <= session.authorizedSites[id].lastSeenAt

=============================================================================
